---- MODULE Spec2Model ----
(***************************************************************************)
(* A model of the fluffles ecosystem simulation: the World (tile grid,     *)
(* animal registry, population pressure), the Animal life cycle with its   *)
(* shared actions, the DNA inheritance model and the Fluffles policy.      *)
(*                                                                         *)
(* Numbers.  The program computes in floating point.  The model keeps      *)
(* every quantity as an integer multiple of a unit small enough that all   *)
(* the constants of the code are whole:                                    *)
(*   stats and foodValue   1.0 = StatUnit  (0.5, 0.3, 0.1, 0.01, x/2)      *)
(*   gene values, draws    1.0 = GeneUnit  (0.08, 0.05, 0.03, averages)    *)
(* age is counted in whole ticks, as in the code.                          *)
(*                                                                         *)
(* Randomness.  Every Math.random() that decides something is an explicit  *)
(* input of the operator that consumes it; the actions draw these inputs   *)
(* from small sets.  A comparison random() < c whose draw is not needed    *)
(* any further is a Boolean input, constrained by what a draw in [0,1)     *)
(* can give: TRUE needs c > 0, FALSE needs c < 1.                          *)
(***************************************************************************)
EXTENDS Integers, Sequences, FiniteSets, TLC

\* ------------------------------------------------------------------ bounds
\* World dimensions handed to the World constructor.
W == 4
H == 3
\* How many animals are ever constructed and registered (ids 1..MaxIds).
MaxIds == 4
\* How many Animal.update() calls a behaviour holds, over all update passes.
MaxUpdates == 3
\* How many calls from outside the tick (addAnimal, removeAnimal, reproduce).
MaxCalls == 2
\* How many Animal.update() calls the behaviours that follow a whole courtship
\* hold: four ticks of two animals, and the update of their offspring.
CourtUpdates == 9
\* How many major disasters a behaviour follows to their end: no tick after the
\* last of them has ended.
MaxDisasters == 1
\* How many minor challenges a behaviour holds, ...
MaxChallenges == 1
\* ... and on how many ticks of its earthquakes the terrain is damaged.
MaxQuakes == 1
\* How many DNA.combine() and DNA.mutate() calls follow one another, each on the
\* genome the call before it returned.
MaxBreeds == 3

\* ------------------------------------------------------------------- units
StatUnit == 2 * 100
GeneUnit == 8 * 1000

Min(a, b) == IF a < b THEN a ELSE b
Max(a, b) == IF a > b THEN a ELSE b
Abs(a) == IF a < 0 THEN -a ELSE a

Ids == 1..MaxIds
NoId == 0

Positions == [x : 0..(W - 1), y : 0..(H - 1)]

\* World constructor: maxPopulation = Math.floor(width * height * 0.3)
maxPopulation == (W * H * 3) \div 10

\* ============================================================== variables
VARIABLES
  animals,             \* World.animals: the Map's keys, in insertion order
  agent,               \* World.animals: id -> the Animal object's fields
  populationPressure,  \* World.populationPressure
  grid,                \* World.grid: position -> tile
  nextId,              \* ids handed out so far + 1 (crypto.randomUUID is fresh)
  pc,                  \* where World.update() stands: idle, loop (at the head of the
                       \* forEach body), update (past the stress of the animal cur)
  cur,                 \* the animal the forEach of World.update() is at
  visited,             \* animals the forEach has already passed in this pass
  last,                \* what the last operation was and what it returned
  ticking,             \* a World.update() pass has been started
  updates,             \* Animal.update() calls made
  calls,               \* calls from outside the tick made
  budget,              \* Animal.update() calls the behaviour may hold
  courted,             \* id -> update() calls the animal has made since it took
                       \* its present partner
  sim,                 \* the Simulation's fields (on: a Simulation drives the world)
  tally                \* what the engine has done so far: disasters ended, challenges
                       \* held, damaging quakes drawn, and for the active disaster
                       \* the duration drawn and the ticks elapsed since its trigger

vars == <<animals, agent, populationPressure, grid, nextId, pc, cur, visited,
          last, ticking, updates, calls, budget, courted, sim, tally>>

\* ==================================================================== DNA
\* A DNA is the Map name -> Gene: here a function whose domain is the set of
\* gene names present, each gene a record of value and mutationRate.

\* DNA.STANDARD_GENES: defaultValue and defaultMutationRate of the catalog.
G(v, r) == [value |-> (v * GeneUnit) \div 100, mutationRate |-> (r * GeneUnit) \div 100]

STANDARD_GENES ==
  [ size             |-> G(50, 5),
    speed            |-> G(50, 10),
    metabolism       |-> G(50, 5),
    vision           |-> G(50, 8),
    intelligence     |-> G(30, 3),
    aggression       |-> G(30, 10),
    socialBehavior   |-> G(50, 7),
    furColor         |-> G(50, 15),
    reproductiveUrge |-> G(50, 10),
    lifespan         |-> G(50, 5),
    maturityAge      |-> G(50, 5),
    friendship       |-> G(50, 10) ]

GeneNames == DOMAIN STANDARD_GENES

\* DNA.createStandard(customValues): every catalog gene, the custom value where
\* one is given, always the default mutation rate.
createStandard(customValues) ==
  [ n \in GeneNames |->
      [ value        |-> IF n \in DOMAIN customValues
                         THEN customValues[n]
                         ELSE STANDARD_GENES[n].value,
        mutationRate |-> STANDARD_GENES[n].mutationRate ] ]

\* The custom values of the Fluffles constructor.
FlufflesValues ==
  [ size             |-> (30 * GeneUnit) \div 100,
    speed            |-> (70 * GeneUnit) \div 100,
    metabolism       |-> (70 * GeneUnit) \div 100,
    vision           |-> (60 * GeneUnit) \div 100,
    intelligence     |-> (40 * GeneUnit) \div 100,
    aggression       |-> (20 * GeneUnit) \div 100,
    socialBehavior   |-> (60 * GeneUnit) \div 100,
    reproductiveUrge |-> (80 * GeneUnit) \div 100,
    maturityAge      |-> (40 * GeneUnit) \div 100 ]

\* Fluffles constructor: a DNA without genes is filled with the standard genes
\* under the Fluffles values; any other DNA is kept as it is.
FlufflesDNA(dna) ==
  IF DOMAIN dna = {} THEN createStandard(FlufflesValues) ELSE dna

\* DNA.getGene(name) with the fallback the caller gives for an absent gene.
GeneValue(dna, name, fallback) ==
  IF name \in DOMAIN dna THEN dna[name].value ELSE fallback

\* A mutate that does not clamp the new value.
mutateFree(dna, m) ==
  [ n \in DOMAIN dna |->
      IF n \in DOMAIN m
      THEN [ value |-> dna[n].value + m[n], mutationRate |-> dna[n].mutationRate ]
      ELSE dna[n] ]

\* DNA.mutate().  m is what the draws of this call gave: its domain is the set
\* of genes for which random() < mutationRate held, m[n] the mutationAmount
\* (random()*2 - 1) * 0.1 of gene n.
mutate(dna, m) ==
  [ n \in DOMAIN dna |->
      IF n \in DOMAIN m
      THEN [ value        |-> Max(0, Min(GeneUnit, dna[n].value + m[n])),
             mutationRate |-> dna[n].mutationRate ]
      ELSE dna[n] ]

\* The draws a mutate() of dna can see: random() < mutationRate can hold only
\* for a rate above 0 and can fail only for a rate below 1; the amount lies in
\* [-0.1, 0.1).
MutatePossible(dna, m) ==
  /\ DOMAIN m \subseteq DOMAIN dna
  /\ \A n \in DOMAIN dna :
       /\ n \in DOMAIN m => dna[n].mutationRate > 0
       /\ n \notin DOMAIN m => dna[n].mutationRate < GeneUnit
  /\ \A n \in DOMAIN m : m[n] >= -(GeneUnit \div 10) /\ m[n] < GeneUnit \div 10

\* A combine that walks the first parent's genes only.
combineFirst(dna1, dna2, c) ==
  [ n \in DOMAIN dna1 |->
      IF n \in DOMAIN dna2
      THEN CASE c[n] = "first"  -> dna1[n]
             [] c[n] = "second" -> dna2[n]
             [] OTHER ->
                  [ value        |-> (dna1[n].value + dna2[n].value) \div 2,
                    mutationRate |-> (dna1[n].mutationRate + dna2[n].mutationRate) \div 2 ]
      ELSE dna1[n] ]

\* DNA.combine(dna1, dna2).  c[n] is the branch inheritanceType took for a gene
\* both parents have: "first" (< 0.4), "second" (< 0.8) or "blend".
combine(dna1, dna2, c) ==
  [ n \in (DOMAIN dna1) \cup (DOMAIN dna2) |->
      IF n \in DOMAIN dna1 /\ n \in DOMAIN dna2
      THEN CASE c[n] = "first"  -> dna1[n]
             [] c[n] = "second" -> dna2[n]
             [] OTHER ->
                  [ value        |-> (dna1[n].value + dna2[n].value) \div 2,
                    mutationRate |-> (dna1[n].mutationRate + dna2[n].mutationRate) \div 2 ]
      ELSE IF n \in DOMAIN dna1 THEN dna1[n] ELSE dna2[n] ]

\* ================================================================== World
\* The operators below work on a record w of the program's state
\*   animals, agent, populationPressure, grid, nextId
\* and ev, the account of the operation in progress (see the variable last).

\* World.isPositionValid(position)
isPositionValid(p) == p.x >= 0 /\ p.x < W /\ p.y >= 0 /\ p.y < H

\* World.getTile(position) is grid[position] for a valid position, null otherwise.
Pos(x, y) == [x |-> x, y |-> y]

\* Manhattan distance, as computed in getAnimalsInRadius and the policies.
Distance(p, q) == Abs(p.x - q.x) + Abs(p.y - q.y)

\* A capacity test that lets one animal too many in (> for >=).
AtCapacityLate(w) == Len(w.animals) > maxPopulation

\* World.addAnimal: the capacity test.
AtCapacity(w) == Len(w.animals) >= maxPopulation

\* World.addAnimal: Math.min(10, Math.floor((size / maxPopulation) * 10)).
PressureOf(size) == Min(10, (size * 10) \div maxPopulation)

\* A nudge without its ceiling of 5.
NudgeAlways(p) == p + 1

\* World.addAnimal: the rejected insertion's side effect on populationPressure.
Nudge(p) == IF p < 5 THEN p + 1 ELSE p

\* An addAnimal whose capacity branch does not return: it falls through to the
\* insertion.
addAnimalAlways(w, id, a) ==
  [w EXCEPT !.animals = Append(@, id),
            !.agent = (id :> a) @@ w.agent,
            !.populationPressure = PressureOf(Len(w.animals) + 1),
            !.ev.ok = TRUE]

\* World.addAnimal(animal); the return value is left in ev.ok.
addAnimal(w, id, a) ==
  IF AtCapacity(w)
  THEN [w EXCEPT !.populationPressure = Nudge(@), !.ev.ok = FALSE]
  ELSE [w EXCEPT !.animals = Append(@, id),
                 !.agent = (id :> a) @@ w.agent,
                 !.populationPressure = PressureOf(Len(w.animals) + 1),
                 !.ev.ok = TRUE]

\* A removal that, asked for an id the registry does not hold, drops the animal
\* registered last.
removeOrEvict(w, id) ==
  LET gone == IF id \in DOMAIN w.agent \/ Len(w.animals) = 0
              THEN id ELSE w.animals[Len(w.animals)]
  IN [w EXCEPT !.animals = SelectSeq(@, LAMBDA i : i # gone),
               !.agent = [i \in (DOMAIN w.agent) \ {gone} |-> w.agent[i]],
               !.ev.had = id \in DOMAIN w.agent]

\* World.removeAnimal(id): Map.delete, nothing else; what delete returns (was the
\* id registered) is left in ev.had.
removeAnimal(w, id) ==
  [w EXCEPT !.animals = SelectSeq(@, LAMBDA i : i # id),
            !.agent = [i \in (DOMAIN w.agent) \ {id} |-> w.agent[i]],
            !.ev.had = id \in DOMAIN w.agent]

\* World.getAnimal(id): the animal registered under id (here its id), or none.
getAnimal(w, id) == IF id \in DOMAIN w.agent THEN id ELSE NoId

\* World.getAllAnimals(): the animals registered (here their ids).
getAllAnimals(w) == {w.animals[k] : k \in 1..Len(w.animals)}

\* World.getAnimalsInRadius(center, radius): in the Map's order.
getAnimalsInRadius(w, center, radius) ==
  SelectSeq(w.animals, LAMBDA i : Distance(w.agent[i].position, center) <= radius)

\* A consumeFood that takes the whole amount from the tile.
consumeFoodWhole(w, p, amount) ==
  IF isPositionValid(p)
  THEN [w EXCEPT !.grid[p].foodValue = @ - amount]
  ELSE w

\* World.consumeFood(position, amount): what it returns ...
consumed(w, p, amount) ==
  IF isPositionValid(p) THEN Min(w.grid[p].foodValue, amount) ELSE 0

\* ... and what it does to the tile.
consumeFood(w, p, amount) ==
  IF isPositionValid(p)
  THEN [w EXCEPT !.grid[p].foodValue = @ - consumed(w, p, amount)]
  ELSE w

\* World.update: regrowthRate = Math.max(0.01, 0.1 - populationPressure * 0.01)
regrowthRate(pressure) ==
  Max(StatUnit \div 100, StatUnit \div 10 - pressure * (StatUnit \div 100))

\* World.update: one tile of the regrowth loop.
regrowTile(tile, rate) ==
  IF tile.type = "grass" /\ tile.foodValue < 10 * StatUnit
  THEN [tile EXCEPT !.foodValue = @ + rate]
  ELSE tile

\* World.update: the regrowth loop over the grid.
regrow(w) ==
  [w EXCEPT !.grid = [p \in Positions |->
                        regrowTile(w.grid[p], regrowthRate(w.populationPressure))]]

\* ================================================================= Animal
\* Animal constructor, as called by the Fluffles constructor.
NewAnimal(dna, position) ==
  [ position       |-> position,
    health         |-> 100 * StatUnit,
    energy         |-> 100 * StatUnit,
    age            |-> 0,
    hunger         |-> 0,
    dna            |-> FlufflesDNA(dna),
    matingPartner  |-> NoId,
    matingProgress |-> 0 ]

\* What an accessor hands to its caller: the object `val` read from animal `of`;
\* live says that it is the animal's own object and not a new one.
\* Animal.getDNA(): return this.dna
getDNA(w, id) == [of |-> id, part |-> "dna", live |-> TRUE, val |-> w.agent[id].dna]

\* Animal.getPosition(): return {...this.position}
getPosition(w, id) ==
  [of |-> id, part |-> "position", live |-> FALSE, val |-> w.agent[id].position]

\* Animal.getStats(): return {...this.stats}
getStats(w, id) ==
  [of |-> id, part |-> "stats", live |-> FALSE,
   val |-> [health |-> w.agent[id].health, energy |-> w.agent[id].energy,
            age |-> w.agent[id].age, hunger |-> w.agent[id].hunger]]

\* h.field = value, for the object h an accessor has returned: the assignment
\* reaches the animal when h is the animal's own object, and only then.
assign(w, h, field, value) ==
  IF ~h.live THEN w
  ELSE IF h.part = "position" THEN [w EXCEPT !.agent[h.of].position[field] = value]
  ELSE [w EXCEPT !.agent[h.of][field] = value]

\* dna.addGene(gene) on the DNA h that getDNA() has returned: genes.set(name, gene).
addGene(w, h, name, gene) ==
  IF h.live
  THEN [w EXCEPT !.agent[h.of].dna =
          [n \in (DOMAIN @) \cup {name} |-> IF n = name THEN gene ELSE @[n]]]
  ELSE w

\* Animal.update: the first three statements (age, hunger, energy).
decay(a) ==
  [a EXCEPT !.age = @ + 1,
            !.hunger = Min(100 * StatUnit, @ + StatUnit),
            !.energy = Max(0, @ - StatUnit \div 2)]

\* A death test that wants both conditions (&& for ||).
StarvedBoth(a) == a.health <= 0 /\ a.hunger >= 100 * StatUnit

\* Animal.update: the first death test.
Starved(a) == a.health <= 0 \/ a.hunger >= 100 * StatUnit

\* A maxAge that ignores the lifespan gene.
maxAgeFlat(a) == 100 * GeneUnit

\* Animal.update: maxAge = 100 + lifespan * 50, in GeneUnit-ths of a tick.
maxAge(a) == 100 * GeneUnit + GeneValue(a.dna, "lifespan", 0) * 50

\* Animal.update: age > maxAge * 0.7
Elderly(a) == a.age * GeneUnit * 10 > maxAge(a) * 7

\* An old-age test that any animal can pass.
CanSurviveAgeAlways(a) == a.age >= 0

\* Animal.update: deathChance * 0.1 < 1, that is, a draw can let the animal live:
\* (age - 0.7 maxAge) / (0.3 maxAge) * 0.1 < 1  iff  age < 3.7 maxAge.
CanSurviveAge(a) == a.age * GeneUnit * 10 < maxAge(a) * 37

\* Animal.isAdult(): age >= Math.max(15, 25 + maturityAge * 20 - 10); an absent
\* gene gives the modifier 0.
maturityAge(a) ==
  Max(15 * GeneUnit,
      IF "maturityAge" \in DOMAIN a.dna
      THEN 25 * GeneUnit + a.dna["maturityAge"].value * 20 - 10 * GeneUnit
      ELSE 25 * GeneUnit)

\* A maturity test that ignores the gene.
isAdultFlat(a) == a.age >= 15

isAdult(a) == a.age * GeneUnit >= maturityAge(a)

\* A die() that leaves the animal in the registry.
dieLater(w, id) == w

\* Animal.die()
die(w, id) == removeAnimal(w, id)

\* Animal.move(direction): the clamped target of the switch.
Target(p, direction) ==
  CASE direction = "north" -> Pos(p.x, Max(0, p.y - 1))
    [] direction = "east"  -> Pos(Min(W - 1, p.x + 1), p.y)
    [] direction = "south" -> Pos(p.x, Min(H - 1, p.y + 1))
    [] direction = "west"  -> Pos(Max(0, p.x - 1), p.y)

\* A move that costs nothing when the animal stays where it is.
moveFree(w, id, direction) ==
  LET newPosition == Target(w.agent[id].position, direction)
      w1 == [w EXCEPT !.ev.moved = direction, !.ev.from = w.agent[id].position]
  IN
  IF newPosition # w.agent[id].position
  THEN [w1 EXCEPT !.agent[id].position = newPosition,
                  !.agent[id].energy = @ - StatUnit]
  ELSE w1

\* Animal.move(direction); the direction asked for and the position moved from
\* are left in ev.moved and ev.from.
move(w, id, direction) ==
  LET newPosition == Target(w.agent[id].position, direction)
      w1 == [w EXCEPT !.ev.moved = direction, !.ev.from = w.agent[id].position]
  IN
  IF isPositionValid(newPosition)
  THEN [w1 EXCEPT !.agent[id].position = newPosition,
                  !.agent[id].energy = @ - StatUnit]
  ELSE w1

\* Animal.eat(foodValue)
eat(w, id, foodValue) ==
  [w EXCEPT !.agent[id].hunger = Max(0, @ - foodValue),
            !.agent[id].energy = Min(100 * StatUnit, @ + foodValue \div 2)]

\* A stress that knows only the severe branch.
applyEnvironmentalStressFlat(w, id, pressureLevel, sick) ==
  IF pressureLevel > 5
  THEN [w EXCEPT !.agent[id].hunger = @ + StatUnit \div 2,
                 !.agent[id].energy = @ - (3 * StatUnit) \div 10,
                 !.agent[id].health = IF sick THEN @ - StatUnit ELSE @]
  ELSE w

\* Animal.applyEnvironmentalStress(pressureLevel); sick is the draw
\* random() < 0.05 of the severe branch.
applyEnvironmentalStress(w, id, pressureLevel, sick) ==
  IF pressureLevel > 7
  THEN [w EXCEPT !.agent[id].hunger = @ + StatUnit \div 2,
                 !.agent[id].energy = @ - (3 * StatUnit) \div 10,
                 !.agent[id].health = IF sick THEN @ - StatUnit ELSE @]
  ELSE IF pressureLevel > 5
  THEN [w EXCEPT !.agent[id].hunger = @ + (3 * StatUnit) \div 10,
                 !.agent[id].energy = @ - StatUnit \div 10]
  ELSE w

\* Animal.reproduce: successChance = Math.max(0.1, reproductiveUrge - pressure * 0.08),
\* the urge of an animal without the gene being 0.5.
successChance(a, pressure) ==
  Max(GeneUnit \div 10,
      GeneValue(a.dna, "reproductiveUrge", GeneUnit \div 2) - pressure * ((8 * GeneUnit) \div 100))

\* A failure test that also fails the draw equal to the chance (>= for >).
DrawFailsAtOrAbove(draw, chance) == draw >= chance

\* Animal.reproduce: the test that ends a failed attempt, Math.random() > successChance.
DrawFails(draw, chance) == draw > chance

\* Animal.reproduce: childPosition
childPosition(p, q) == Pos((p.x + q.x) \div 2, (p.y + q.y) \div 2)

\* A reproduce that takes the 30 energy from the partner as well.
reproduceShared(w, id, partner, draw, c, m) ==
  LET me == w.agent[id]
      pa == w.agent[partner]
      wp == [w EXCEPT !.ev.partner = partner]
  IN
  IF ~isAdult(me) \/ ~isAdult(pa)
  THEN [wp EXCEPT !.ev.repro = "denied"]
  ELSE IF me.energy < 50 * StatUnit \/ pa.energy < 50 * StatUnit
  THEN [wp EXCEPT !.ev.repro = "denied"]
  ELSE
    LET chance == successChance(me, w.populationPressure)
    IN
    IF DrawFails(draw, chance)
    THEN [wp EXCEPT !.agent[id].energy = @ - 10 * StatUnit,
                    !.ev.repro = "failed", !.ev.draw = draw]
    ELSE
      LET mutatedDNA == mutate(combine(me.dna, pa.dna, c), m)
          offspring == NewAnimal(mutatedDNA, childPosition(me.position, pa.position))
          w0 == [wp EXCEPT !.agent[partner].energy = @ - 30 * StatUnit]
          w1 == [w0 EXCEPT !.agent[id].energy = @ - 30 * StatUnit, !.ev.draw = draw]
          w2 == addAnimal(w1, w.nextId, offspring)
      IN
      IF w2.ev.ok
      THEN [w2 EXCEPT !.nextId = @ + 1, !.ev.repro = "born", !.ev.child = w.nextId]
      ELSE [w2 EXCEPT !.ev.repro = "rejected"]

\* A reproduce that registers an offspring on a failed draw too.
reproduceRegardless(w, id, partner, draw, c, m) ==
  LET me == w.agent[id]
      pa == w.agent[partner]
      wp == [w EXCEPT !.ev.partner = partner]
  IN
  IF ~isAdult(me) \/ ~isAdult(pa)
  THEN [wp EXCEPT !.ev.repro = "denied"]
  ELSE IF me.energy < 50 * StatUnit \/ pa.energy < 50 * StatUnit
  THEN [wp EXCEPT !.ev.repro = "denied"]
  ELSE
    LET chance == successChance(me, w.populationPressure)
        mutatedDNA == mutate(combine(me.dna, pa.dna, c), m)
        offspring == NewAnimal(mutatedDNA, childPosition(me.position, pa.position))
        w1 == [wp EXCEPT !.agent[id].energy = @ - 30 * StatUnit, !.ev.draw = draw]
        w2 == addAnimal(w1, w.nextId, offspring)
    IN
    IF w2.ev.ok
    THEN [w2 EXCEPT !.nextId = @ + 1,
                    !.ev.repro = IF DrawFails(draw, chance) THEN "failed" ELSE "born",
                    !.ev.child = w.nextId]
    ELSE [w2 EXCEPT !.ev.repro = "rejected"]

\* Animal.reproduce(partner).  draw is the Math.random() compared with
\* successChance (left in ev.draw), c the draws of DNA.combine, m those of
\* DNA.mutate.  What it returns is in ev.repro: "denied" (null, a precondition
\* failed), "failed" (null, the draw), "rejected" (null, the world refused the
\* offspring) or "born" (the offspring, ev.child).
reproduce(w, id, partner, draw, c, m) ==
  LET me == w.agent[id]
      pa == w.agent[partner]
      wp == [w EXCEPT !.ev.partner = partner]
  IN
  IF ~isAdult(me) \/ ~isAdult(pa)
  THEN [wp EXCEPT !.ev.repro = "denied"]
  ELSE IF me.energy < 50 * StatUnit \/ pa.energy < 50 * StatUnit
  THEN [wp EXCEPT !.ev.repro = "denied"]
  ELSE
    LET chance == successChance(me, w.populationPressure)
    IN
    IF DrawFails(draw, chance)
    THEN [wp EXCEPT !.agent[id].energy = @ - 10 * StatUnit,
                    !.ev.repro = "failed", !.ev.draw = draw]
    ELSE
      LET mutatedDNA == mutate(combine(me.dna, pa.dna, c), m)
          offspring == NewAnimal(mutatedDNA, childPosition(me.position, pa.position))
          w1 == [wp EXCEPT !.agent[id].energy = @ - 30 * StatUnit, !.ev.draw = draw]
          w2 == addAnimal(w1, w.nextId, offspring)
      IN
      IF w2.ev.ok
      THEN [w2 EXCEPT !.nextId = @ + 1, !.ev.repro = "born", !.ev.child = w.nextId]
      ELSE [w2 EXCEPT !.ev.repro = "rejected"]

\* Animal.attack: successChance = 0.3 + aggression*0.4 + speedAdvantage*0.3, times
\* 10 GeneUnit.
attackChance(a, t) ==
  3 * GeneUnit
  + GeneValue(a.dna, "aggression", (3 * GeneUnit) \div 10) * 4
  + Max(0, GeneValue(a.dna, "speed", GeneUnit \div 2)
           - GeneValue(t.dna, "speed", GeneUnit \div 2)) * 3

\* An energy test that also turns away the attacker of exactly 20 energy.
TooTiredAtTwenty(a) == a.energy <= 20 * StatUnit

\* Animal.attack: "Check if we have enough energy to attack".
TooTired(a) == a.energy < 20 * StatUnit

\* Animal.attack(target).  hit is the draw random() < successChance, gain the
\* energyGain 30 + Math.floor(random() * 20).  What it returns is in ev.atk:
\* "tired" (false, no energy), "miss" (false) or "hit" (true).
attack(w, id, target, hit, gain) ==
  IF TooTired(w.agent[id])
  THEN [w EXCEPT !.ev.atk = "tired", !.ev.target = target]
  ELSE
    LET w1 == [w EXCEPT !.agent[id].energy = @ - 15 * StatUnit, !.ev.target = target] IN
    IF hit
    THEN LET w2 == [w1 EXCEPT
                      !.agent[id].energy = Min(100 * StatUnit, @ + gain * StatUnit),
                      !.agent[id].hunger = Max(0, @ - 40 * StatUnit),
                      !.ev.atk = "hit"]
         IN die(w2, target)
    ELSE [w1 EXCEPT !.ev.atk = "miss"]

\* Animal.shouldBeAggressive: aggressionTendency, times TendencyOne.
TendencyOne == 10 * GeneUnit * 100 * StatUnit

aggressionTendency(a) ==
  GeneValue(a.dna, "aggression", (3 * GeneUnit) \div 10) * 3 * 100 * StatUnit
  + Max(0, 100 * StatUnit - a.energy) * 2 * GeneUnit
  + a.hunger * 4 * GeneUnit
  - GeneValue(a.dna, "friendship", GeneUnit \div 2) * 3 * 100 * StatUnit

\* The values Math.random() < chance can take, the chance being n / one.
Outcomes(n, one) == {b \in BOOLEAN : IF b THEN n > 0 ELSE n < one}

\* =============================================================== Fluffles
Directions == {"north", "east", "south", "west"}

\* energyGain = 30 + Math.floor(Math.random() * 20): the least, a middle and the
\* greatest value.
EnergyGains == {30, 40, 49}

\* The first of the candidates (ids, in the order given) nearest to position p:
\* the loops keep a candidate only on a strictly smaller distance.
Closest(w, p, cands) ==
  LET d(k) == Distance(w.agent[cands[k]].position, p)
      best == CHOOSE k \in 1..Len(cands) :
                \A j \in 1..Len(cands) : d(k) < d(j) \/ (d(k) = d(j) /\ k <= j)
  IN cands[best]

\* A moveToward that steps horizontally on a tie.
moveTowardAcross(w, id, targetPos) ==
  LET dx == targetPos.x - w.agent[id].position.x
      dy == targetPos.y - w.agent[id].position.y
      w1 == [w EXCEPT !.ev.to = targetPos]
  IN
  IF Abs(dx) >= Abs(dy)
  THEN IF dx > 0 THEN move(w1, id, "east") ELSE move(w1, id, "west")
  ELSE IF dy > 0 THEN move(w1, id, "south") ELSE move(w1, id, "north")

\* Fluffles.moveToward(targetPos); the target is left in ev.to.
moveToward(w, id, targetPos) ==
  LET dx == targetPos.x - w.agent[id].position.x
      dy == targetPos.y - w.agent[id].position.y
      w1 == [w EXCEPT !.ev.to = targetPos]
  IN
  IF Abs(dx) > Abs(dy)
  THEN IF dx > 0 THEN move(w1, id, "east") ELSE move(w1, id, "west")
  ELSE IF dy > 0 THEN move(w1, id, "south") ELSE move(w1, id, "north")

\* Fluffles.wander(): every direction the draw can pick.
wander(w, id) == {move(w, id, d) : d \in Directions}

\* Fluffles.rest()
rest(w, id) ==
  [w EXCEPT !.agent[id].energy = Min(100 * StatUnit, @ + 10 * StatUnit)]

\* Fluffles.searchForFood: the adjacent positions, in the order of the array.
adjacentPositions(p) ==
  << Pos(p.x, p.y - 1), Pos(p.x + 1, p.y), Pos(p.x, p.y + 1), Pos(p.x - 1, p.y) >>

\* Fluffles.searchForFood: the positions that can become bestFoodPosition.
FoodPositions(w, p) ==
  SelectSeq(adjacentPositions(p),
            LAMBDA q : /\ isPositionValid(q)
                       /\ w.grid[q].type = "grass"
                       /\ w.grid[q].foodValue > 0)

\* Fluffles.searchForFood: bestFoodPosition, the first adjacent grass tile of the
\* greatest foodValue.
bestFoodPosition(w, p) ==
  LET f == FoodPositions(w, p)
      best == CHOOSE k \in 1..Len(f) :
                \A j \in 1..Len(f) :
                  \/ w.grid[f[k]].foodValue > w.grid[f[j]].foodValue
                  \/ (w.grid[f[k]].foodValue = w.grid[f[j]].foodValue /\ k <= j)
  IN f[best]

\* Fluffles.searchForFood: "Eat if we're on a grass tile".
eatHere(w, id) ==
  LET p == w.agent[id].position
      currentTile == w.grid[p]
  IN
  IF currentTile.type = "grass" /\ currentTile.foodValue > 0
  THEN LET amount == Min(5 * StatUnit, currentTile.foodValue) IN
       eat(consumeFood(w, p, amount), id, consumed(w, p, amount))
  ELSE w

\* Fluffles.searchForFood()
searchForFood(w, id) ==
  LET p == w.agent[id].position IN
  IF Len(FoodPositions(w, p)) > 0
  THEN LET b == bestFoodPosition(w, p)
           moved == IF b.y < p.y THEN move(w, id, "north")
                    ELSE IF b.x > p.x THEN move(w, id, "east")
                    ELSE IF b.y > p.y THEN move(w, id, "south")
                    ELSE IF b.x < p.x THEN move(w, id, "west")
                    ELSE w
       IN {eatHere(moved, id)}
  ELSE wander(w, id)

\* The other animals of a radius, in the Map's order.
Others(w, id, radius) ==
  SelectSeq(getAnimalsInRadius(w, w.agent[id].position, radius), LAMBDA i : i # id)

\* Fluffles.seekCompany()
seekCompany(w, id) ==
  LET others == Others(w, id, 3) IN
  IF Len(others) > 0
  THEN {moveToward(w, id, w.agent[Closest(w, w.agent[id].position, others)].position)}
  ELSE wander(w, id)

\* Fluffles.huntOthers()
huntOthers(w, id) ==
  LET potentialTargets == Others(w, id, 2) IN
  IF Len(potentialTargets) > 0
  THEN LET closestTarget == Closest(w, w.agent[id].position, potentialTargets)
           t == w.agent[closestTarget]
       IN
       IF Distance(t.position, w.agent[id].position) <= 1
       THEN {attack(w, id, closestTarget, hit, gain) :
               hit \in Outcomes(attackChance(w.agent[id], t), 10 * GeneUnit),
               gain \in EnergyGains}
       ELSE {moveToward(w, id, t.position)}
  ELSE wander(w, id)

\* Fluffles.startMating(partnerId)
startMating(w, id, partnerId) ==
  IF w.agent[id].matingPartner = NoId
  THEN [w EXCEPT !.agent[id].matingPartner = partnerId,
                 !.agent[id].matingProgress = 0]
  ELSE w

\* Fluffles.searchForMates(): the loop stops at the first other adult of the
\* radius, whatever its distance.
searchForMates(w, id) ==
  LET adults == SelectSeq(Others(w, id, 2), LAMBDA i : isAdult(w.agent[i])) IN
  IF Len(adults) > 0
  THEN LET pos == w.agent[adults[1]].position IN
       IF Distance(pos, w.agent[id].position) <= 1
       THEN {startMating(w, id, adults[1])}
       ELSE {moveToward(w, id, pos)}
  ELSE wander(w, id)

\* A courtship one update shorter.
MatingDurationShort == 4 - 1

\* Fluffles.MATING_DURATION
MATING_DURATION == 4

\* The draws of one reproduce(): the Math.random() compared with successChance
\* (the least and the greatest draw, the chance itself and the next value above it),
DrawsAround(chance) == {0, chance, chance + 1, GeneUnit - 1} \cap (0..(GeneUnit - 1))

\* the branches of DNA.combine (the same branch for every shared gene),
CombineDraws(dna1, dna2) ==
  {[n \in (DOMAIN dna1) \cap (DOMAIN dna2) |-> b] : b \in {"first", "second", "blend"}}

\* and the mutations of DNA.mutate: no gene or every gene, by the least amount
\* or by half the greatest.
MutationAmounts == {-(GeneUnit \div 10), GeneUnit \div 20}

MutateDraws(dna) ==
  {m \in {[n \in S |-> amt] : S \in {{}, DOMAIN dna}, amt \in MutationAmounts} :
     MutatePossible(dna, m)}

\* Every way reproduce(partner) can end for the draws above.
reproduceAny(w, id, partner) ==
  LET me == w.agent[id]
      pa == w.agent[partner]
  IN
  UNION { {reproduce(w, id, partner, draw, c, m) :
             draw \in DrawsAround(successChance(me, w.populationPressure)),
             m \in MutateDraws(combine(me.dna, pa.dna, c))} :
          c \in CombineDraws(me.dna, pa.dna) }

\* A continueMating that has the animal whose partner has disappeared walk on.
continueMatingRestless(w, id) ==
  LET partner == w.agent[id].matingPartner IN
  IF partner \notin DOMAIN w.agent
  THEN wander([w EXCEPT !.agent[id].matingPartner = NoId, !.agent[id].matingProgress = 0], id)
  ELSE
    LET w1 == [w EXCEPT !.agent[id].matingProgress = @ + 1] IN
    IF w1.agent[id].matingProgress >= MATING_DURATION
    THEN {[r EXCEPT !.agent[id].matingPartner = NoId, !.agent[id].matingProgress = 0] :
            r \in reproduceAny(w1, id, partner)}
    ELSE IF Distance(w1.agent[partner].position, w1.agent[id].position) > 1
         THEN {moveToward(w1, id, w1.agent[partner].position)}
         ELSE {w1}

\* A continueMating that keeps the progress made when the partner is gone.
continueMatingStale(w, id) ==
  LET partner == w.agent[id].matingPartner IN
  IF partner \notin DOMAIN w.agent
  THEN {[w EXCEPT !.agent[id].matingPartner = NoId]}
  ELSE
    LET w1 == [w EXCEPT !.agent[id].matingProgress = @ + 1] IN
    IF w1.agent[id].matingProgress >= MATING_DURATION
    THEN {[r EXCEPT !.agent[id].matingPartner = NoId, !.agent[id].matingProgress = 0] :
            r \in reproduceAny(w1, id, partner)}
    ELSE IF Distance(w1.agent[partner].position, w1.agent[id].position) > 1
         THEN {moveToward(w1, id, w1.agent[partner].position)}
         ELSE {w1}

\* Fluffles.continueMating()
continueMating(w, id) ==
  LET partner == w.agent[id].matingPartner IN
  IF partner \notin DOMAIN w.agent
  THEN {[w EXCEPT !.agent[id].matingPartner = NoId, !.agent[id].matingProgress = 0]}
  ELSE
    LET w1 == [w EXCEPT !.agent[id].matingProgress = @ + 1] IN
    IF w1.agent[id].matingProgress >= MATING_DURATION
    THEN {[r EXCEPT !.agent[id].matingPartner = NoId, !.agent[id].matingProgress = 0] :
            r \in reproduceAny(w1, id, partner)}
    ELSE IF Distance(w1.agent[partner].position, w1.agent[id].position) > 1
         THEN {moveToward(w1, id, w1.agent[partner].position)}
         ELSE {w1}

\* A policy that seeks a mate before it is adult.
DecideYoung(a, pressure, shouldAttack, smart, choice) ==
  IF smart
  THEN IF a.hunger > 70 * StatUnit
       THEN IF shouldAttack /\ (a.hunger > 80 * StatUnit \/ a.energy < 50 * StatUnit)
            THEN "hunt" ELSE "forage"
       ELSE IF a.energy < 30 * StatUnit
       THEN "rest"
       ELSE IF a.hunger > 40 * StatUnit
       THEN IF shouldAttack /\ (a.hunger > 60 * StatUnit \/ a.energy < 50 * StatUnit)
            THEN "hunt" ELSE "forage"
       ELSE IF /\ "reproductiveUrge" \in DOMAIN a.dna
               /\ a.dna["reproductiveUrge"].value * 10 > 6 * GeneUnit
               /\ a.energy > 70 * StatUnit
               /\ pressure < 7
       THEN "mates"
       ELSE IF /\ "socialBehavior" \in DOMAIN a.dna
               /\ a.dna["socialBehavior"].value * 10 > 7 * GeneUnit
               /\ pressure < 8
               /\ ~shouldAttack
       THEN "company"
       ELSE IF shouldAttack /\ a.energy < 50 * StatUnit
       THEN "hunt"
       ELSE "wander"
  ELSE IF shouldAttack /\ a.energy < 50 * StatUnit /\ choice = "low"
       THEN "hunt"
       ELSE IF choice = "low" THEN "forage"
       ELSE IF choice = "mid" THEN "rest"
       ELSE "wander"

\* Fluffles.act: the branch taken.  shouldAttack is shouldBeAggressive(), smart is
\* randomFactor < intelligence, choice says where the draw of the other branch
\* fell: "low" (< 0.4), "mid" (< 0.6) or "high".
Decide(a, pressure, shouldAttack, smart, choice) ==
  IF smart
  THEN IF a.hunger > 70 * StatUnit
       THEN IF shouldAttack /\ (a.hunger > 80 * StatUnit \/ a.energy < 50 * StatUnit)
            THEN "hunt" ELSE "forage"
       ELSE IF a.energy < 30 * StatUnit
       THEN "rest"
       ELSE IF a.hunger > 40 * StatUnit
       THEN IF shouldAttack /\ (a.hunger > 60 * StatUnit \/ a.energy < 50 * StatUnit)
            THEN "hunt" ELSE "forage"
       ELSE IF /\ "reproductiveUrge" \in DOMAIN a.dna
               /\ a.dna["reproductiveUrge"].value * 10 > 6 * GeneUnit
               /\ a.energy > 70 * StatUnit
               /\ pressure < 7
               /\ isAdult(a)
       THEN "mates"
       ELSE IF /\ "socialBehavior" \in DOMAIN a.dna
               /\ a.dna["socialBehavior"].value * 10 > 7 * GeneUnit
               /\ pressure < 8
               /\ ~shouldAttack
       THEN "company"
       ELSE IF shouldAttack /\ a.energy < 50 * StatUnit
       THEN "hunt"
       ELSE "wander"
  ELSE IF shouldAttack /\ a.energy < 50 * StatUnit /\ choice = "low"
       THEN "hunt"
       ELSE IF choice = "low" THEN "forage"
       ELSE IF choice = "mid" THEN "rest"
       ELSE "wander"

\* Fluffles.act: the method the branch calls.
Behave(w, id, what) ==
  CASE what = "hunt"    -> huntOthers(w, id)
    [] what = "forage"  -> searchForFood(w, id)
    [] what = "rest"    -> {rest(w, id)}
    [] what = "mates"   -> searchForMates(w, id)
    [] what = "company" -> seekCompany(w, id)
    [] what = "wander"  -> wander(w, id)

\* Fluffles.act(): every world it can leave.
act(w, id) ==
  LET a == w.agent[id] IN
  IF a.matingPartner # NoId
  THEN continueMating([w EXCEPT !.ev.act = "mating"], id)
  ELSE UNION
    { Behave([w EXCEPT !.ev.act = Decide(a, w.populationPressure, shouldAttack, smart, choice),
                       !.ev.branch = IF smart THEN "smart" ELSE "random",
                       !.ev.gate = shouldAttack],
             id, Decide(a, w.populationPressure, shouldAttack, smart, choice)) :
        shouldAttack \in Outcomes(aggressionTendency(a), TendencyOne),
        smart \in Outcomes(GeneValue(a.dna, "intelligence", (3 * GeneUnit) \div 10), GeneUnit),
        choice \in {"low", "mid", "high"} }

\* Animal.update(): every world it can leave.
Animal_update(w, id) ==
  LET w1 == [w EXCEPT !.agent[id] = decay(@)]
      a == w1.agent[id]
  IN
  IF Starved(a)
  THEN {die([w1 EXCEPT !.ev.act = "died"], id)}
  ELSE IF Elderly(a)
  THEN {die([w1 EXCEPT !.ev.act = "oldAge"], id)}
       \cup (IF CanSurviveAge(a) THEN act(w1, id) ELSE {})
  ELSE act(w1, id)


\* ============================================================= Simulation
\* disasterIntensity is kept in hundredths: 0.5 + random() * 0.5 is 50 and up,
\* below 100.  Food amounts are kept to 1 / StatUnit, rounded down.
IntensityOne == 10 * 10

\* Simulation.triggerDisaster: disasterTypes.
disasterTypes == {"earthquake", "drought", "disease", "coldSnap"}

\* The Simulation's fields after its constructor.
NewSimulation ==
  [ on |-> TRUE, paused |-> FALSE, disasterActive |-> FALSE, disasterType |-> "",
    disasterDuration |-> 0, disasterIntensity |-> 0 ]

\* The world without a Simulation around it.
NoSimulation == [NewSimulation EXCEPT !.on = FALSE]

\* for (y) for (x) if grass: world.consumeFood(position, tile.foodValue * n / one),
\* the loop of reduceWorldFood and of the drought.
reduceGrass(w, n, one) ==
  [w EXCEPT !.grid =
     [p \in Positions |->
        IF w.grid[p].type = "grass"
        THEN [w.grid[p] EXCEPT
                !.foodValue = @ - consumed(w, p, (w.grid[p].foodValue * n) \div one)]
        ELSE w.grid[p]]]

\* Simulation.reduceWorldFood(percentage), the percentage in hundredths.
reduceWorldFood(w, percentage) == reduceGrass(w, percentage, 100)

\* const stats = animal.getStats(); stats.<field> += delta, for the animals ids
\* one after the other.
RECURSIVE afflict(_, _, _, _)
afflict(w, ids, field, delta) ==
  IF Len(ids) = 0 THEN w
  ELSE LET stats == getStats(w, Head(ids)) IN
       afflict(assign(w, stats, field, stats.val[field] + delta), Tail(ids), field, delta)

\* The animals of the registry that are among those drawn, in the Map's order.
Drew(w, struck) == SelectSeq(w.animals, LAMBDA i : i \in struck)

\* Simulation.applyDisease(): stats.health -= 20 for each of the
\* Math.ceil(animals.length * 0.2) animals drawn, drawn being those animals.
applyDisease(w, drawn) == afflict(w, drawn, "health", -(20 * StatUnit))

\* Simulation.applyHarshWeather(): stats.energy = Math.max(10, stats.energy - 10)
\* for every animal.
RECURSIVE chill(_, _)
chill(w, ids) ==
  IF Len(ids) = 0 THEN w
  ELSE LET stats == getStats(w, Head(ids)) IN
       chill(assign(w, stats, "energy", Max(10 * StatUnit, stats.val.energy - 10 * StatUnit)),
             Tail(ids))

applyHarshWeather(w) == chill(w, w.animals)

\* Simulation.introduceChallenge(), challengeType being where its draw fell and
\* drawn the animals the disease draws.
introduceChallenge(w, challengeType, drawn) ==
  LET w1 == [w EXCEPT !.ev.challenge = challengeType] IN
  CASE challengeType = "food"    -> reduceWorldFood(w1, 30)
    [] challengeType = "disease" -> applyDisease(w1, drawn)
    [] challengeType = "weather" -> applyHarshWeather(w1)

\* Simulation.applyDisasterEffects, earthquake: the tiles drawn, one after the
\* other.
RECURSIVE damage(_, _, _)
damage(w, tiles, intensity) ==
  IF Len(tiles) = 0 THEN w
  ELSE LET p == Head(tiles)
           w1 == IF w.grid[p].type = "grass"
                 THEN consumeFood(w, p, (w.grid[p].foodValue * intensity) \div IntensityOne)
                 ELSE w
       IN damage(w1, Tail(tiles), intensity)

\* Simulation.applyDisasterEffects, drought: disasterDuration % 5 === 0.
Withers(duration) == duration % 5 = 0

\* Math.floor(n * disasterIntensity) points of a stat.
Harm(n, intensity) == ((n * intensity) \div IntensityOne) * StatUnit

\* disasterIntensity * 2 points of a stat.
Twice(intensity) == (2 * intensity * StatUnit) \div IntensityOne

\* Simulation.applyDisasterEffects(): s the Simulation's fields, quake the draw
\* random() < 0.3 of the earthquake, tiles the five positions it draws, and
\* struck the animals for which the draw of the kind (injured, infected, frozen)
\* fell under its chance.
applyDisasterEffects(w, s, quake, tiles, struck) ==
  CASE s.disasterType = "earthquake" ->
         afflict(IF quake THEN damage(w, tiles, s.disasterIntensity) ELSE w,
                 Drew(w, struck), "health", -Harm(20, s.disasterIntensity))
    [] s.disasterType = "drought" ->
         afflict(IF Withers(s.disasterDuration)
                 THEN [reduceGrass(w, s.disasterIntensity, 10 * IntensityOne)
                         EXCEPT !.ev.withered = TRUE]
                 ELSE w,
                 w.animals, "hunger", Twice(s.disasterIntensity))
    [] s.disasterType = "disease" ->
         afflict(w, Drew(w, struck), "health", -Harm(10, s.disasterIntensity))
    [] s.disasterType = "coldSnap" ->
         afflict(afflict(w, w.animals, "energy", -Twice(s.disasterIntensity)),
                 Drew(w, struck), "health", -Harm(5, s.disasterIntensity))
    [] OTHER -> w

\* Simulation.triggerDisaster(): the world and the fields it leaves.
triggerDisaster(w, s, disasterType, duration, intensity, quake, tiles, struck) ==
  LET s1 == [s EXCEPT !.disasterActive = TRUE,
                      !.disasterType = disasterType,
                      !.disasterDuration = duration,
                      !.disasterIntensity = intensity]
  IN [w |-> applyDisasterEffects([w EXCEPT !.ev.triggered = TRUE], s1, quake, tiles, struck),
      s |-> s1]

\* An updateDisaster that ends the disaster one tick late.
updateDisasterLate(w, s, quake, tiles, struck) ==
  LET w1 == applyDisasterEffects([w EXCEPT !.ev.updated = TRUE], s, quake, tiles, struck)
      s1 == [s EXCEPT !.disasterDuration = @ - 1]
  IN [w |-> w1,
      s |-> IF s1.disasterDuration < 0
            THEN [s1 EXCEPT !.disasterActive = FALSE, !.disasterType = ""]
            ELSE s1]

\* An updateDisaster that ends the disaster one tick early.
updateDisasterEarly(w, s, quake, tiles, struck) ==
  LET w1 == applyDisasterEffects([w EXCEPT !.ev.updated = TRUE], s, quake, tiles, struck)
      s1 == [s EXCEPT !.disasterDuration = @ - 1]
  IN [w |-> w1,
      s |-> IF s1.disasterDuration <= 1
            THEN [s1 EXCEPT !.disasterActive = FALSE, !.disasterType = ""]
            ELSE s1]

\* Simulation.updateDisaster(): the world and the fields it leaves.
updateDisaster(w, s, quake, tiles, struck) ==
  LET w1 == applyDisasterEffects([w EXCEPT !.ev.updated = TRUE], s, quake, tiles, struck)
      s1 == [s EXCEPT !.disasterDuration = @ - 1]
  IN [w |-> w1,
      s |-> IF s1.disasterDuration <= 0
            THEN [s1 EXCEPT !.disasterActive = FALSE, !.disasterType = ""]
            ELSE s1]


\* ============================================================ the machine
\* The program's state as the record the operators work on, and back.
Ev(op, id) ==
  [ op |-> op, id |-> id, ok |-> FALSE, act |-> "none", branch |-> "none",
    gate |-> FALSE, repro |-> "none", partner |-> NoId, child |-> NoId,
    draw |-> -1, atk |-> "none", target |-> NoId, had |-> FALSE,
    dna1 |-> << >>, dna2 |-> << >>, out |-> << >>,
    moved |-> "none", from |-> [x |-> -1, y |-> -1], to |-> [x |-> -1, y |-> -1],
    amount |-> -1, consumed |-> -1,
    challenge |-> "none", triggered |-> FALSE, updated |-> FALSE, withered |-> FALSE ]

Start(op, id) ==
  [ animals |-> animals, agent |-> agent, populationPressure |-> populationPressure,
    grid |-> grid, nextId |-> nextId, ev |-> Ev(op, id) ]

Install(w) ==
  /\ animals' = w.animals
  /\ agent' = w.agent
  /\ populationPressure' = w.populationPressure
  /\ grid' = w.grid
  /\ nextId' = w.nextId
  /\ last' = w.ev

\* ------------------------------------------------------------------- Init
\* World constructor: every tile is drawn grass (foodValue 10), water (5) or
\* rock (0).  Two of the grids it can draw.
Seeded(kind) ==
  [ p \in Positions |->
      IF p = Pos(0, 0) THEN [type |-> "rock", foodValue |-> 0]
      ELSE IF p = Pos(1, 0) \/ (kind = "wet" /\ p.y = 1)
      THEN [type |-> "water", foodValue |-> 5 * StatUnit]
      ELSE [type |-> "grass", foodValue |-> 10 * StatUnit] ]

\* The dry grid with one grass tile eaten from (10 -> 5) and regrown since.
Regrown(p, v) == [Seeded("dry") EXCEPT ![p].foodValue = v]

\* A tile eaten from 21 ticks ago in a world of two animals: 5 and 21 regrowths.
Grazed == Regrown(Pos(2, 1), 5 * StatUnit + 21 * regrowthRate(PressureOf(2)))

\* A tile eaten from long ago in a world of one animal, one regrowth short of 10:
\* 5 + 71 * 0.07 = 9.97 at pressure 3.
Ripening ==
  LET rate == regrowthRate(PressureOf(1)) IN
  Regrown(Pos(1, 1), 5 * StatUnit + ((5 * StatUnit - 1) \div rate) * rate)

\* What n ticks of applyEnvironmentalStress(pressureLevel) add to the hunger and
\* take from the energy of an animal.
Stressed(a, pressureLevel, n) ==
  IF pressureLevel > 7
  THEN [a EXCEPT !.hunger = @ + n * (StatUnit \div 2),
                 !.energy = @ - n * ((3 * StatUnit) \div 10)]
  ELSE IF pressureLevel > 5
  THEN [a EXCEPT !.hunger = @ + n * ((3 * StatUnit) \div 10),
                 !.energy = @ - n * (StatUnit \div 10)]
  ELSE a

\* A Fluffles constructed with dna `alone + beside` ticks ago, alone in the world
\* at first and beside a second animal for the last `beside` ticks.  energy and
\* hunger (in tenths) are what its rests, moves and meals have left of the decay
\* of every tick; the stress of the ticks beside the other comes on top.
Grown(dna, x, y, alone, beside, energy, hunger) ==
  Stressed([NewAnimal(dna, Pos(x, y)) EXCEPT
              !.age = alone + beside,
              !.energy = (energy * StatUnit) \div 10,
              !.hunger = (hunger * StatUnit) \div 10],
           PressureOf(2), beside)

Courting(a, partner, progress) ==
  [a EXCEPT !.matingPartner = partner, !.matingProgress = progress]

NoDNA == [n \in {} |-> 0]

\* DNA handed to the constructor by a caller: two sparse genomes.
EagerDNA ==
  [ reproductiveUrge |-> G(90, 10), maturityAge |-> G(20, 5) ]

LongDNA ==
  [ reproductiveUrge |-> G(70, 10), lifespan |-> G(100, 5), intelligence |-> G(60, 3) ]

\* The animals used below, each with the energy a history of rests and moves
\* leaves it.
\*   Adult     30 ticks alone, never ate
\*   Paired    30 ticks beside a second animal, never ate
\*   Suitor    the same, the last four ticks in a courtship
\*   Joined    12 ticks alone and 18 beside a second animal
\*   Older     10 ticks alone and 30 beside a second animal, ate once
\*   Tired     10 ticks alone and 30 beside a second animal, never ate
\*   Drained   25 ticks alone and 30 beside a second animal, moved on each
\*   Flagging  two ticks of rest, then 52 of moves, the last 14 beside a second
\*             animal
\*   Hunter    25 ticks beside a second animal: 23 moves and two failed attacks
\*   Fresh     25 ticks beside a second animal, the last of them the one it
\*             took a partner on
\*   Juvenile  18 ticks beside a second animal, rested on all but five
\*   Starving  60 ticks alone and 30 beside a second animal, never ate
\*   Spent     66 ticks alone, moved on each of them
\*   Aged      90 ticks alone, never ate
\*   Veteran   75 ticks alone, ate once
Adult(x, y)    == Grown(NoDNA, x, y, 30, 0, 800, 300)
Paired(x, y)   == Grown(NoDNA, x, y, 0, 30, 790, 300)
Suitor(x, y)   == Grown(NoDNA, x, y, 0, 30, 810, 300)
Joined(x, y)   == Grown(NoDNA, x, y, 12, 18, 800, 300)
Older(x, y)    == Grown(NoDNA, x, y, 10, 30, 750, 350)
Tired(x, y)    == Grown(NoDNA, x, y, 10, 30, 445, 400)
Drained(x, y)  == Grown(NoDNA, x, y, 25, 30, 175, 550)
Flagging(x, y) == Grown(NoDNA, x, y, 40, 14, 220, 540)
Hunter(x, y)   == Grown(NoDNA, x, y, 0, 25, 345, 250)
Fresh(x, y)    == Grown(NoDNA, x, y, 0, 25, 855, 250)
Juvenile(x, y) == Grown(NoDNA, x, y, 0, 18, 950, 180)
Starving(x, y) == Grown(NoDNA, x, y, 60, 30, 500, 900)
Spent(x, y)    == Grown(NoDNA, x, y, 66, 0, 10, 660)
Aged(x, y)     == Grown(NoDNA, x, y, 90, 0, 800, 900)
Veteran(x, y)  == Grown(NoDNA, x, y, 75, 0, 600, 700)
Newborn(x, y)  == NewAnimal(NoDNA, Pos(x, y))

\* A state a run can have reached without a removal so far: the animals r in
\* insertion order (ids 1..Len(r)) and the grid g; populationPressure is as the
\* last addAnimal left it.
Scene(r, g) == [r |-> r, g |-> g, n |-> MaxUpdates]

\* The same, for a behaviour that follows a courtship to its end.
Courtship(r, g) == [r |-> r, g |-> g, n |-> CourtUpdates]

Scenes ==
  { \* the world just constructed
    Scene(<< >>, Seeded("dry")),
    Scene(<< >>, Seeded("wet")),
    \* one animal
    Scene(<< Adult(1, 1) >>, Seeded("dry")),
    Scene(<< Spent(3, 2) >>, Seeded("dry")),
    Scene(<< Aged(0, 2) >>, Seeded("dry")),
    Scene(<< Veteran(1, 2) >>, Ripening),
    \* two adults side by side; two steps apart
    Scene(<< Paired(1, 1), Paired(2, 1) >>, Seeded("dry")),
    Scene(<< Older(3, 1), Paired(1, 1) >>, Grazed),
    \* an adult and a juvenile; a tired adult and an adult
    Scene(<< Joined(1, 1), Juvenile(1, 2) >>, Seeded("dry")),
    Scene(<< Tired(1, 2), Paired(1, 1) >>, Seeded("wet")),
    \* an adult out of energy beside another; one with just enough left to attack
    Scene(<< Drained(2, 2), Paired(2, 1) >>, Seeded("dry")),
    Scene(<< Flagging(3, 1), Paired(3, 2) >>, Seeded("dry")),
    \* a young animal that has hunted before, beside another
    Scene(<< Hunter(2, 2), Paired(3, 2) >>, Seeded("dry")),
    \* two adults and the animal just added
    Scene(<< Paired(1, 1), Paired(2, 1), Newborn(3, 2) >>, Seeded("dry")),
    \* two rested adults side by side and the animal just added
    Scene(<< Fresh(1, 1), Fresh(2, 1), Newborn(3, 2) >>, Seeded("dry")),
    \* an animal about to starve, and an adult courting it
    Scene(<< Starving(2, 2), Courting(Paired(2, 1), 1, 1) >>, Seeded("dry")),
    \* two adults that have just taken each other as partners
    Courtship(<< Courting(Fresh(1, 1), 2, 0), Courting(Fresh(2, 1), 1, 0) >>, Seeded("dry")),
    \* an animal about to starve, and an adult at the last step of courting it
    Scene(<< Starving(2, 2), Courting(Suitor(2, 1), 1, 3) >>, Seeded("dry")),
    \* a courtship at its last step
    Scene(<< Courting(Suitor(1, 1), 2, 3), Paired(2, 1) >>, Seeded("dry")),
    \* the same, the animal courted being the first of the registry
    Scene(<< Paired(2, 1), Courting(Suitor(1, 1), 1, 3) >>, Seeded("dry")),
    \* two animals constructed with genomes of their own
    Scene(<< Grown(EagerDNA, 0, 1, 0, 30, 790, 300),
             Grown(LongDNA, 1, 1, 0, 30, 790, 300) >>,
          Seeded("dry")) }

\* Nothing done by the engine so far.
NoTally ==
  [ended |-> 0, challenges |-> 0, quakes |-> 0, drawn |-> 0, elapsed |-> 0, withered |-> FALSE]

Init ==
  /\ \E s \in Scenes :
       /\ Len(s.r) <= maxPopulation
       /\ animals = [i \in 1..Len(s.r) |-> i]
       /\ agent = [i \in 1..Len(s.r) |-> s.r[i]]
       /\ nextId = Len(s.r) + 1
       /\ grid = s.g
       /\ budget = s.n
       /\ populationPressure = IF Len(s.r) = 0 THEN 0 ELSE PressureOf(Len(s.r))
  /\ pc = "idle"
  /\ cur = NoId
  /\ visited = {}
  /\ last = Ev("init", NoId)
  /\ ticking = FALSE
  /\ updates = 0
  /\ calls = 0
  /\ courted = [i \in Ids |-> IF i \in DOMAIN agent THEN agent[i].matingProgress ELSE 0]
  /\ sim = NoSimulation
  /\ tally = NoTally

\* ---------------------------------------------------------------- actions
\* A behaviour holds calls from outside (at most MaxCalls) or update passes (at
\* most MaxUpdates animals updated), as the program runs them: its driver makes
\* no call between two ticks.
\* Positions an animal is constructed at by a caller.
SeedPositions == {Pos(1, 1), Pos(W - 1, H - 1)}

\* Simulation.initialize: the positions drawn for n animals, all the same or
\* every other one the same.
Drawn(n) ==
  { [i \in 1..n |-> Pos(1, 1)],
    [i \in 1..n |-> IF i % 2 = 1 THEN Pos(1, 1) ELSE Pos(W - 1, H - 1)] }

\* Simulation.initialize: the loop of addAnimal calls, ps the positions drawn.
RECURSIVE initialize(_, _)
initialize(w, ps) ==
  IF Len(ps) = 0 THEN w
  ELSE LET w1 == addAnimal(w, w.nextId, NewAnimal(NoDNA, Head(ps))) IN
       initialize([w1 EXCEPT !.nextId = IF w1.ev.ok THEN @ + 1 ELSE @], Tail(ps))

\* Simulation.initialize(numFluffles) on the world just constructed.
Initialize ==
  /\ pc = "idle" /\ ~ticking /\ calls = 0 /\ last.op = "init" /\ nextId = 1
  /\ \E numFluffles \in 1..(MaxIds + 1) :
       LET actualFluffles == Min(numFluffles, maxPopulation) IN
       /\ actualFluffles <= MaxIds
       /\ \E ps \in Drawn(actualFluffles) :
            Install(initialize(Start("initialize", NoId), ps))
  /\ UNCHANGED <<pc, cur, visited, ticking, updates, calls, budget, courted, sim, tally>>

\* world.addAnimal(new Fluffles(dna, position, ...)) by a caller.
AddAnimal ==
  /\ pc = "idle" /\ ~ticking /\ calls < MaxCalls
  /\ nextId <= MaxIds
  /\ \E dna \in {NoDNA, EagerDNA}, position \in SeedPositions :
       LET w == addAnimal(Start("addAnimal", nextId), nextId, NewAnimal(dna, position)) IN
       Install([w EXCEPT !.nextId = IF w.ev.ok THEN @ + 1 ELSE @])
  /\ calls' = calls + 1
  /\ UNCHANGED <<pc, cur, visited, ticking, updates, budget, courted, sim, tally>>

\* world.removeAnimal(id) by a caller, for any id ever handed out or not.
RemoveAnimal ==
  /\ pc = "idle" /\ ~ticking /\ calls < MaxCalls
  /\ \E id \in Ids : Install(removeAnimal(Start("removeAnimal", id), id))
  /\ calls' = calls + 1
  /\ UNCHANGED <<pc, cur, visited, ticking, updates, budget, courted, sim, tally>>

\* animal.reproduce(partner) by a caller.
Reproduce ==
  /\ pc = "idle" /\ ~ticking /\ calls < MaxCalls
  /\ \E id \in DOMAIN agent, partner \in DOMAIN agent :
       \E w \in reproduceAny(Start("reproduce", id), id, partner) :
         /\ w.nextId <= MaxIds + 1
         /\ Install(w)
  /\ calls' = calls + 1
  /\ UNCHANGED <<pc, cur, visited, ticking, updates, budget, courted, sim, tally>>

\* World.update() is entered.
BeginUpdate ==
  /\ pc = "idle" /\ calls = 0 /\ updates < budget
  /\ pc' = "loop"
  /\ visited' = {}
  /\ ticking' = TRUE
  /\ last' = Ev("beginUpdate", NoId)
  /\ UNCHANGED <<animals, agent, populationPressure, grid, nextId, cur, updates, calls, budget, courted, sim, tally>>

\* A loop that starts over from the first animal of the registry at every step.
PendingAll == animals

\* The animals the forEach of World.update() has still to visit, in order: a Map
\* iterates in insertion order, skips what was deleted and reaches what was added.
Pending == SelectSeq(animals, LAMBDA i : i \notin visited)

\* World.update, loop body, first statement: applyEnvironmentalStress when
\* populationPressure > 5.
StressStep ==
  /\ pc = "loop" /\ Len(Pending) > 0 /\ updates < budget
  /\ populationPressure > 5
  /\ \E sick \in BOOLEAN :
       /\ sick => populationPressure > 7
       /\ Install(applyEnvironmentalStress(Start("stress", Head(Pending)), Head(Pending),
                                           populationPressure, sick))
  /\ pc' = "update"
  /\ cur' = Head(Pending)
  /\ UNCHANGED <<visited, ticking, updates, calls, budget, courted, sim, tally>>

\* Fluffles.act: the update() calls an animal has made since Fluffles.startMating
\* gave it its present partner, n being the count before this call; 0 for an
\* animal without a partner.
Courted(id, before, after, n) ==
  IF id \notin DOMAIN after \/ after[id].matingPartner = NoId THEN 0
  ELSE IF before[id].matingPartner = NoId THEN 0
  ELSE n + 1

\* World.update, loop body, second statement: animal.update().
UpdateStep ==
  /\ pc \in {"loop", "update"} /\ Len(Pending) > 0 /\ updates < budget
  /\ pc = "loop" => populationPressure <= 5
  /\ \E w \in Animal_update(Start("update", Head(Pending)), Head(Pending)) :
       /\ w.nextId <= MaxIds + 1
       /\ Install(w)
  /\ pc' = "loop"
  /\ cur' = NoId
  /\ visited' = visited \cup {Head(Pending)}
  /\ updates' = updates + 1
  /\ courted' = [courted EXCEPT ![Head(Pending)] = Courted(Head(Pending), agent, agent', @)]
  /\ UNCHANGED <<ticking, calls, budget, sim, tally>>

\* World.update, after the forEach: the regrowth loop; update() returns.
RegrowStep ==
  /\ pc = "loop" /\ Len(Pending) = 0
  /\ Install(regrow(Start("regrow", NoId)))
  /\ pc' = "idle"
  /\ visited' = {}
  /\ UNCHANGED <<cur, ticking, updates, calls, budget, courted, sim, tally>>

\* ------------------------------------------------- the Simulation's actions
\* Simulation.triggerDisaster: disasterDuration = 20 + floor(random() * 30) and
\* disasterIntensity = 0.5 + random() * 0.5, in hundredths.
DurationBase == 20
DurationSpan == 30
IntensityBase == 50

\* The disasters followed: a drought of the shortest duration, of two and of four
\* ticks more and of the longest, at the least intensity, and one near the
\* greatest; an earthquake, a disease and a cold snap.
DisasterDraws ==
  {[kind |-> "drought", duration |-> d, intensity |-> IntensityBase] :
     d \in {DurationBase, DurationBase + 2, DurationBase + 4, DurationBase + DurationSpan - 1}}
  \cup {[kind |-> "drought", duration |-> DurationBase, intensity |-> IntensityOne - 1],
        [kind |-> "earthquake", duration |-> DurationBase, intensity |-> IntensityOne - 1],
        [kind |-> "disease", duration |-> DurationBase + 1, intensity |-> IntensityBase],
        [kind |-> "coldSnap", duration |-> DurationBase + DurationSpan - 1,
         intensity |-> IntensityOne - 1]}

\* The five tiles an earthquake draws: the rock, the water, one grass tile twice
\* and another once.
QuakeTiles == << Pos(0, 0), Pos(1, 0), Pos(2, 1), Pos(2, 1), Pos(W - 1, H - 1) >>

\* The pause toggle of the renderer.
TogglePause ==
  /\ sim.on /\ pc = "idle"
  /\ sim' = [sim EXCEPT !.paused = ~@]
  /\ UNCHANGED <<animals, agent, populationPressure, grid, nextId, pc, cur, visited,
                 last, ticking, updates, calls, budget, courted, tally>>

\* Simulation.tick() while paused: it renders and returns.
TickPaused ==
  /\ sim.on /\ pc = "idle" /\ sim.paused
  /\ UNCHANGED vars

\* The animals a tick's draws strike: none, or the one registered first.
Strikes(w) == {{}} \cup {{w.animals[k]} : k \in (1..Len(w.animals)) \cap {1}}

\* The animals a minor disease draws, Math.ceil(animals.length * 0.2) of them:
\* here the ones registered first.
Patients(w) == SubSeq(w.animals, 1, (Len(w.animals) + 4) \div 5)

\* A trigger that does not look whether a disaster is active.
QuietAlways(s) == TRUE

\* Simulation.tick(): the else branch of `if (this.disasterActive)`.
Quiet(s) == ~s.disasterActive

\* Simulation.tick(), after world.update() has returned in the world w0:
\* updateDisaster() for the active disaster; otherwise introduceChallenge() if its
\* draw says so, and triggerDisaster() if its draw says so.
HandleDisasters(w0) ==
  \E quake \in BOOLEAN, struck \in Strikes(w0) :
    /\ quake => tally.quakes < MaxQuakes
    /\ IF ~Quiet(sim)
       THEN /\ quake => sim.disasterType = "earthquake"
            /\ LET r == updateDisaster(w0, sim, quake, QuakeTiles, struck) IN
               /\ Install(r.w)
               /\ sim' = r.s
               /\ tally' = IF r.s.disasterActive
                           THEN [tally EXCEPT !.elapsed = @ + 1,
                                              !.quakes = IF quake THEN @ + 1 ELSE @,
                                              !.withered = r.w.ev.withered]
                           ELSE [tally EXCEPT !.ended = @ + 1,
                                              !.quakes = IF quake THEN @ + 1 ELSE @,
                                              !.drawn = 0, !.elapsed = 0,
                                              !.withered = FALSE]
       ELSE \E challengeType \in {"none", "food", "disease", "weather"},
               draw \in {[kind |-> "none"]} \cup DisasterDraws :
              /\ challengeType # "none" => tally.challenges < MaxChallenges
              /\ quake => draw.kind = "earthquake"
              /\ LET w1 == IF challengeType = "none" THEN w0
                           ELSE introduceChallenge(w0, challengeType, Patients(w0))
                     r == IF draw.kind = "none" THEN [w |-> w1, s |-> sim]
                          ELSE triggerDisaster(w1, sim, draw.kind, draw.duration,
                                               draw.intensity, quake, QuakeTiles, struck)
                 IN
                 /\ Install(r.w)
                 /\ sim' = r.s
                 /\ tally' = [tally EXCEPT
                                !.challenges = IF challengeType = "none" THEN @ ELSE @ + 1,
                                !.quakes = IF quake THEN @ + 1 ELSE @,
                                !.drawn = IF draw.kind = "none" THEN @ ELSE draw.duration,
                                !.withered = r.w.ev.withered]

\* Simulation.tick() while not paused, in a world without animals: the forEach of
\* world.update() has no animal to visit, the grass regrows, and the disasters are
\* handled.
Tick ==
  /\ sim.on /\ pc = "idle" /\ ~sim.paused
  /\ Len(animals) = 0
  /\ tally.ended < MaxDisasters
  /\ HandleDisasters(regrow(Start("tick", NoId)))
  /\ UNCHANGED <<pc, cur, visited, ticking, updates, calls, budget, courted>>

\* Simulation.tick() while not paused: world.update() is entered.
BeginTick ==
  /\ sim.on /\ ~sim.paused
  /\ tally.ended < MaxDisasters
  /\ BeginUpdate

\* Simulation.tick(), from the end of the forEach of world.update() on: the grass
\* regrows, update() returns, and the disasters are handled.
TickEnd ==
  /\ sim.on /\ pc = "loop" /\ Len(Pending) = 0
  /\ HandleDisasters(regrow(Start("tick", NoId)))
  /\ pc' = "idle"
  /\ visited' = {}
  /\ UNCHANGED <<cur, ticking, updates, calls, budget, courted>>

Next ==
  \/ Initialize
  \/ AddAnimal
  \/ RemoveAnimal
  \/ Reproduce
  \/ BeginUpdate
  \/ StressStep
  \/ UpdateStep
  \/ RegrowStep

Spec == Init /\ [][Next]_vars

\* ------------------------------------------------ the Simulation's ticks
\* The world just constructed, under a Simulation that has added no animal (or
\* has lost them all).
InitEngine ==
  /\ grid = Seeded("dry")
  /\ animals = << >>
  /\ agent = [i \in {} |-> 0]
  /\ nextId = 1
  /\ populationPressure = 0
  /\ budget = MaxUpdates
  /\ pc = "idle"
  /\ cur = NoId
  /\ visited = {}
  /\ last = Ev("init", NoId)
  /\ ticking = FALSE
  /\ updates = 0
  /\ calls = 0
  /\ courted = [i \in Ids |-> 0]
  /\ sim = NewSimulation
  /\ tally = NoTally

\* Simulation.tick() on every firing of the timer, and the pause toggle between
\* two ticks.
NextEngine ==
  \/ TogglePause
  \/ TickPaused
  \/ Tick

SpecDisaster == InitEngine /\ [][NextEngine]_vars

\* setInterval fires tick() again and again.
SpecDisasterLive ==
  /\ SpecDisaster
  /\ WF_vars(TickPaused \/ Tick)

\* ------------------------------------- the Simulation's ticks over animals
\* The worlds a Simulation has ticked for a while without a disaster: one adult;
\* two adults side by side.
Herds ==
  { Scene(<< Adult(1, 1) >>, Seeded("dry")),
    Scene(<< Paired(1, 1), Paired(2, 1) >>, Seeded("dry")),
    \* the last animal of a world, 99 ticks alone and never fed; a courtship at
    \* its last step, followed for the one update() that ends it
    Scene(<< Grown(NoDNA, 0, 2, 99, 0, 800, 990) >>, Seeded("dry")),
    [ r |-> << Courting(Suitor(1, 1), 2, 3), Paired(2, 1) >>,
      g |-> Seeded("dry"), n |-> 1 ] }

InitSimulation ==
  /\ \E s \in Herds :
       /\ animals = [i \in 1..Len(s.r) |-> i]
       /\ agent = [i \in 1..Len(s.r) |-> s.r[i]]
       /\ nextId = Len(s.r) + 1
       /\ grid = s.g
       /\ budget = s.n
       /\ populationPressure = PressureOf(Len(s.r))
  /\ pc = "idle"
  /\ cur = NoId
  /\ visited = {}
  /\ last = Ev("init", NoId)
  /\ ticking = FALSE
  /\ updates = 0
  /\ calls = 0
  /\ courted = [i \in Ids |-> 0]
  /\ sim = NewSimulation
  /\ tally = NoTally

NextSimulation ==
  \/ BeginTick
  \/ StressStep
  \/ UpdateStep
  \/ TickEnd

SpecSimulation == InitSimulation /\ [][NextSimulation]_vars

\* --------------------------------------------- reads by a collaborator
\* What a caller of an accessor does to the object it was handed: the position
\* is moved off the grid, the health is set to 0, a gene the genome lacks is
\* added to it, or its speed gene is overwritten.
tamper(w, id, what) ==
  LET w1 == [w EXCEPT !.ev.act = what] IN
  CASE what = "position" ->
         LET position == getPosition(w1, id) IN assign(w1, position, "x", position.val.x + W)
    [] what = "stats" -> assign(w1, getStats(w1, id), "health", 0)
    [] what = "newGene" -> addGene(w1, getDNA(w1, id), "venom", G(100, 0))
    [] what = "oldGene" -> addGene(w1, getDNA(w1, id), "speed", G(0, 0))

\* A collaborator (renderer, logger) reads an animal through an accessor and
\* changes what it was handed.
Access ==
  /\ pc = "idle" /\ ~ticking /\ calls < MaxCalls
  /\ \E id \in DOMAIN agent, what \in {"position", "stats", "newGene", "oldGene"} :
       Install(tamper(Start("access", id), id, what))
  /\ calls' = calls + 1
  /\ UNCHANGED <<pc, cur, visited, ticking, updates, budget, courted, sim, tally>>

NextAccess == Access

SpecAccess == Init /\ [][NextAccess]_vars

\* ------------------------------------------------- seek-mate among three
\* The program's world is 30 by 15 (maxPopulation 135): three animals leave its
\* populationPressure at 0.  The herds below stand in the north-west corner of
\* such a world, on the tiles with x <= 2 and y <= 1, so that one step in any
\* direction either stays within the W by H tiles followed here or is refused
\* at the world's north or west edge.
CornerTiles == {p \in Positions : p.x <= 2 /\ p.y <= 1}

Trios ==
  { << IF young1 THEN Juvenile(p1.x, p1.y) ELSE Fresh(p1.x, p1.y),
       IF young2 THEN Juvenile(p2.x, p2.y) ELSE Fresh(p2.x, p2.y),
       Fresh(p3.x, p3.y) >> :
      p1 \in CornerTiles, p2 \in CornerTiles, p3 \in CornerTiles,
      young1 \in BOOLEAN, young2 \in BOOLEAN }

InitMates ==
  /\ \E r \in Trios :
       /\ animals = <<1, 2, 3>>
       /\ agent = [i \in 1..3 |-> r[i]]
  /\ nextId = 4
  /\ grid = Seeded("dry")
  /\ budget = MaxUpdates
  /\ populationPressure = 0
  /\ pc = "idle"
  /\ cur = NoId
  /\ visited = {}
  /\ last = Ev("init", NoId)
  /\ ticking = FALSE
  /\ updates = 0
  /\ calls = 0
  /\ courted = [i \in Ids |-> 0]
  /\ sim = NoSimulation
  /\ tally = NoTally

\* Fluffles.act() of an animal whose needs send it to searchForMates().
SeekMate ==
  /\ calls = 0
  /\ \E id \in DOMAIN agent :
       /\ agent[id].matingPartner = NoId
       /\ Decide(agent[id], populationPressure, FALSE, TRUE, "low") = "mates"
       /\ \E w \in searchForMates([Start("seek", id) EXCEPT !.ev.act = "mates",
                                                           !.ev.branch = "smart"], id) :
            Install(w)
  /\ calls' = calls + 1
  /\ UNCHANGED <<pc, cur, visited, ticking, updates, budget, courted, sim, tally>>

NextMates == SeekMate

SpecMates == InitMates /\ [][NextMates]_vars

\* ------------------------------------------------- the oldest animals
\* A world seeded with two animals that are both still alive, two or three
\* ticks before 3.7 * maxAge (maxAge 125, so that 3.7 * maxAge is 462.5), fed
\* often enough to be alive, too tired to court.
InitAge ==
  /\ \E age \in {460, 461} :
       /\ animals = <<1, 2>>
       /\ agent = [i \in 1..2 |->
                    [NewAnimal(NoDNA, Pos(i, 1)) EXCEPT !.age = age,
                                                        !.energy = 40 * StatUnit,
                                                        !.hunger = 50 * StatUnit]]
  /\ nextId = 3
  /\ grid \in {Seeded("dry"), Seeded("wet")}
  /\ budget = CourtUpdates
  /\ populationPressure = PressureOf(2)
  /\ pc = "idle"
  /\ cur = NoId
  /\ visited = {}
  /\ last = Ev("init", NoId)
  /\ ticking = FALSE
  /\ updates = 0
  /\ calls = 0
  /\ courted = [i \in Ids |-> 0]
  /\ sim = NoSimulation
  /\ tally = NoTally

NextAge == BeginUpdate \/ StressStep \/ UpdateStep \/ RegrowStep

\* The step of UpdateStep, told by what enables it and by the counter it alone
\* advances: animal.update() returns for the animal the forEach has reached.
UpdateReturns ==
  /\ pc \in {"loop", "update"} /\ Len(Pending) > 0 /\ updates < budget
  /\ pc = "loop" => populationPressure <= 5
  /\ updates' = updates + 1

\* setInterval fires tick() again and again, and a tick runs world.update() to
\* its end: no step of it is put off for ever.
SpecAge ==
  /\ InitAge /\ [][NextAge]_vars
  /\ WF_vars(BeginUpdate) /\ WF_vars(StressStep)
  /\ WF_updates(UpdateReturns) /\ WF_vars(RegrowStep)

\* ------------------------------------------------- moveToward on its own
\* Simulation.initialize(1): one animal, at any tile of the world.
InitMove ==
  /\ \E p \in Positions :
       /\ animals = <<1>>
       /\ agent = [i \in {1} |-> NewAnimal(NoDNA, p)]
  /\ nextId = 2
  /\ grid = Seeded("dry")
  /\ budget = MaxUpdates
  /\ populationPressure = PressureOf(1)
  /\ pc = "idle"
  /\ cur = NoId
  /\ visited = {}
  /\ last = Ev("init", NoId)
  /\ ticking = FALSE
  /\ updates = 0
  /\ calls = 0
  /\ courted = [i \in Ids |-> 0]
  /\ sim = NoSimulation
  /\ tally = NoTally

\* Fluffles.moveToward(targetPos) for a tile of the world, the animal's own
\* tile included.
MoveToward ==
  /\ calls < MaxCalls
  /\ \E id \in DOMAIN agent, targetPos \in Positions :
       Install(moveToward(Start("moveToward", id), id, targetPos))
  /\ calls' = calls + 1
  /\ UNCHANGED <<pc, cur, visited, ticking, updates, budget, courted, sim, tally>>

NextMove == MoveToward

SpecMove == InitMove /\ [][NextMove]_vars

\* ------------------------------------------------- consumeFood on its own
\* Positions next to the grid on each of its sides.
OffGrid == {Pos(-1, 0), Pos(W, 1), Pos(0, -1), Pos(2, H)}

\* Amounts asked for: nothing, half a point, 5, a full tile and more than one.
Amounts == {0, StatUnit \div 2, 5 * StatUnit, 10 * StatUnit, 12 * StatUnit}

\* The world just constructed, without animals.
InitFood ==
  /\ animals = << >>
  /\ agent = [i \in {} |-> 0]
  /\ nextId = 1
  /\ grid \in {Seeded("dry"), Seeded("wet")}
  /\ budget = MaxUpdates
  /\ populationPressure = 0
  /\ pc = "idle"
  /\ cur = NoId
  /\ visited = {}
  /\ last = Ev("init", NoId)
  /\ ticking = FALSE
  /\ updates = 0
  /\ calls = 0
  /\ courted = [i \in Ids |-> 0]
  /\ sim = NoSimulation
  /\ tally = NoTally

\* World.consumeFood(position, amount): the position, the amount and what the
\* call returned are left in last.
ConsumeFood ==
  /\ calls < MaxCalls
  /\ \E position \in Positions \cup OffGrid, amount \in Amounts :
       LET w == Start("consumeFood", NoId) IN
       Install([consumeFood(w, position, amount) EXCEPT
                  !.ev.to = position,
                  !.ev.amount = amount,
                  !.ev.consumed = consumed(w, position, amount)])
  /\ calls' = calls + 1
  /\ UNCHANGED <<pc, cur, visited, ticking, updates, budget, courted, sim, tally>>

NextFood == ConsumeFood

SpecFood == InitFood /\ [][NextFood]_vars

\* ------------------------------------------------- the DNA's functions
\* Genomes a caller constructs, every value within [0, 1]: the Fluffles genome,
\* the two sparse ones, and one whose genes sit near the ends of the range and
\* always mutate.
SeedGenomes ==
  { FlufflesDNA(NoDNA), EagerDNA, LongDNA,
    [ aggression |-> G(5, 100), lifespan |-> G(100, 100), venom |-> G(0, 100) ] }

InitDNA ==
  /\ grid = Seeded("dry")
  /\ animals = << >>
  /\ agent = [i \in {} |-> 0]
  /\ nextId = 1
  /\ populationPressure = 0
  /\ budget = MaxUpdates
  /\ pc = "idle"
  /\ cur = NoId
  /\ visited = {}
  /\ last = Ev("init", NoId)
  /\ ticking = FALSE
  /\ updates = 0
  /\ calls = 0
  /\ courted = [i \in Ids |-> 0]
  /\ sim = NoSimulation
  /\ tally = NoTally

\* The genomes the next call can be made on: a seed for the first call, the
\* genome the last call returned afterwards.
Bred == IF last.op = "init" THEN SeedGenomes ELSE {last.out}

\* DNA.combine(dna1, dna2): what went in and what came out are left in last.
Combine ==
  /\ calls < MaxBreeds
  /\ \E dna1 \in Bred, dna2 \in SeedGenomes :
       \E c \in CombineDraws(dna1, dna2)
                \cup {[n \in (DOMAIN dna1) \cap (DOMAIN dna2) |->
                         IF n \in {"lifespan", "speed", "vision"} THEN "blend"
                         ELSE IF n \in {"aggression", "size"} THEN "second" ELSE "first"]} :
         last' = [Ev("combine", NoId) EXCEPT !.dna1 = dna1, !.dna2 = dna2,
                                            !.out = combine(dna1, dna2, c)]
  /\ calls' = calls + 1
  /\ UNCHANGED <<animals, agent, populationPressure, grid, nextId, pc, cur, visited,
                 ticking, updates, budget, courted, sim, tally>>

\* dna.mutate()
Mutate ==
  /\ calls < MaxBreeds
  /\ \E dna \in Bred :
       \E m \in MutateDraws(dna) :
         last' = [Ev("mutate", NoId) EXCEPT !.dna1 = dna, !.out = mutate(dna, m)]
  /\ calls' = calls + 1
  /\ UNCHANGED <<animals, agent, populationPressure, grid, nextId, pc, cur, visited,
                 ticking, updates, budget, courted, sim, tally>>

NextDNA ==
  \/ Combine
  \/ Mutate

SpecDNA == InitDNA /\ [][NextDNA]_vars

\* ============================================================= properties
\* C1: in every reachable state the registry holds at most maxPopulation =
\* floor(W * H * 0.3) animals.
C1_PopulationBounded == Len(animals) <= (W * H * 3) \div 10

\* A birth during a tick has filled the world to its capacity.
C1_Witness ==
  /\ last.op = "update" /\ last.repro = "born"
  /\ Len(animals) = (W * H * 3) \div 10

\* C2: addAnimal on a registry that holds maxPopulation animals returns false and
\* leaves the registry, its size and its members, as it was; on a registry with
\* fewer it returns true and the animal is registered.  The same holds for the
\* addAnimal a reproduce() makes for the offspring.
C2_AddAnimalAtCapacity ==
  [][ /\ last'.op = "addAnimal" =>
           IF Len(animals) >= maxPopulation
           THEN ~last'.ok /\ animals' = animals /\ agent' = agent
           ELSE /\ last'.ok
                /\ last'.id \notin DOMAIN agent
                /\ animals' = Append(animals, last'.id)
                /\ DOMAIN agent' = DOMAIN agent \cup {last'.id}
                /\ \A i \in DOMAIN agent : agent'[i] = agent[i]
      /\ last'.repro \in {"born", "rejected"} =>
           IF Len(animals) >= maxPopulation
           THEN /\ last'.repro = "rejected"
                /\ animals' = animals /\ DOMAIN agent' = DOMAIN agent
           ELSE /\ last'.repro = "born"
                /\ animals' = Append(animals, last'.child)
                /\ DOMAIN agent' = DOMAIN agent \cup {last'.child}
    ]_vars

\* A caller's addAnimal has been refused by a full world.
C2_Witness ==
  /\ last.op = "addAnimal" /\ ~last.ok
  /\ Len(animals) = maxPopulation /\ last.id \notin DOMAIN agent

\* C3: on a world with maxPopulation > 0, after any sequence of addAnimal,
\* removeAnimal and update, populationPressure is min(10, floor(size /
\* maxPopulation * 10)) of the present registry size.
C3_PressureDerived ==
  maxPopulation > 0 =>
    populationPressure = Min(10, (Len(animals) * 10) \div maxPopulation)

\* C4: populationPressure is an integer of 0..10 in every reachable state, and
\* over consecutive successful addAnimal calls, from the construction of the world
\* or from a successful addAnimal on, with no removal in between, it never
\* decreases.
C4_PressureRangeMonotone ==
  /\ [](populationPressure \in 0..10)
  /\ [][ ( /\ last'.op = "addAnimal" /\ last'.ok
           /\ \/ last.op = "addAnimal" /\ last.ok
              \/ last.op = "initialize"
              \/ last.op = "init" /\ Len(animals) = 0 )
         => populationPressure' >= populationPressure ]_vars

\* Two successful addAnimal calls in a row on the world just constructed.
C4_Witness ==
  /\ last.op = "addAnimal" /\ last.ok /\ calls = 2
  /\ Len(animals) = 2 /\ nextId = 3
  /\ populationPressure = 6

\* C5: after every operation on an animal and at every tick boundary, the
\* health, energy and hunger of every registered animal lie within [0, 100].
C5_StatsInRange ==
  \A i \in DOMAIN agent :
    /\ agent[i].health >= 0 /\ agent[i].health <= 100 * StatUnit
    /\ agent[i].energy >= 0 /\ agent[i].energy <= 100 * StatUnit
    /\ agent[i].hunger >= 0 /\ agent[i].hunger <= 100 * StatUnit

\* C6: the foodValue of every tile stays within [0, 10] after any sequence of
\* consumeFood calls and regrowth steps, the regrowth being capped at 10.
C6_FoodInRange ==
  \A p \in Positions : grid[p].foodValue >= 0 /\ grid[p].foodValue <= 10 * StatUnit

\* C7: an animal whose health is <= 0 or whose hunger is >= 100 after the decay
\* of update() (hunger = min(100, hunger + 1)) is removed from the registry in
\* that update and does nothing else in it: no other animal, no tile and no
\* counter of the world changes, and no move, meal, rest, attack or mating step
\* is made.
C7_DeadDoNotAct ==
  [][ ( /\ last'.op = "update" /\ last'.id \in DOMAIN agent
        /\ \/ agent[last'.id].health <= 0
           \/ Min(100 * StatUnit, agent[last'.id].hunger + StatUnit) >= 100 * StatUnit )
      => /\ last'.id \notin DOMAIN agent'
         /\ animals' = SelectSeq(animals, LAMBDA i : i # last'.id)
         /\ DOMAIN agent' = DOMAIN agent \ {last'.id}
         /\ \A i \in DOMAIN agent' : agent'[i] = agent[i]
         /\ grid' = grid /\ nextId' = nextId
         /\ populationPressure' = populationPressure
         /\ last'.act = "died" /\ last'.repro = "none" /\ last'.atk = "none"
    ]_vars

\* An update has found its animal starved and removed it.
C7_Witness ==
  /\ last.op = "update" /\ last.act = "died"
  /\ last.id \notin DOMAIN agent /\ Len(animals) >= 1

\* C8: reproduce(partner) with either animal younger than max(15, 25 +
\* maturityAge * 20 - 10) ticks (25 for an animal without the gene) or with
\* either energy below 50 returns none and changes nothing: no energy is
\* deducted, no animal is registered and populationPressure stays.
C8_DeniedChangesNothing ==
  [][ ( /\ last'.op = "reproduce"
        /\ last'.id \in DOMAIN agent /\ last'.partner \in DOMAIN agent
        /\ LET young(a) ==
                 a.age * GeneUnit <
                   Max(15 * GeneUnit,
                       25 * GeneUnit +
                         (IF "maturityAge" \in DOMAIN a.dna
                          THEN a.dna["maturityAge"].value * 20 - 10 * GeneUnit
                          ELSE 0))
               low(a) == a.energy < 50 * StatUnit
           IN \/ young(agent[last'.id]) \/ young(agent[last'.partner])
              \/ low(agent[last'.id]) \/ low(agent[last'.partner]) )
      => /\ last'.repro = "denied" /\ last'.child = NoId
         /\ agent' = agent /\ animals' = animals
         /\ populationPressure' = populationPressure
         /\ nextId' = nextId /\ grid' = grid
    ]_vars

\* An adult with energy to spare has called reproduce on a partner of 18 ticks,
\* past the floor of 15 and short of its own maturity age, and got none.
C8_Witness ==
  /\ last.op = "reproduce" /\ last.repro = "denied"
  /\ last.id \in DOMAIN agent /\ last.partner \in DOMAIN agent
  /\ agent[last.id].age = 30 /\ agent[last.id].energy >= 50 * StatUnit
  /\ agent[last.partner].age = 18 /\ agent[last.partner].energy >= 50 * StatUnit

\* C9 as stated: for two adults with energy >= 50, reproduce() goes on exactly when
\* the draw is < successChance = max(0.1, reproductiveUrge - populationPressure *
\* 0.08) (0.5 for an animal without the gene); on a draw >= successChance, the
\* equal draw included, the caller loses exactly 10 energy, no offspring is
\* registered and none is returned.
C9_FailsAtOrAboveChance ==
  [][ ( /\ last'.op = "reproduce" /\ last'.repro \in {"failed", "born", "rejected"}
        /\ last'.id \in DOMAIN agent /\ last'.partner # last'.id )
      => LET me == agent[last'.id]
             urge == IF "reproductiveUrge" \in DOMAIN me.dna
                     THEN me.dna["reproductiveUrge"].value ELSE GeneUnit \div 2
             chance == Max(GeneUnit \div 10,
                           urge - populationPressure * ((8 * GeneUnit) \div 100))
         IN IF last'.draw < chance
            THEN last'.repro \in {"born", "rejected"}
            ELSE /\ last'.repro = "failed" /\ last'.child = NoId
                 /\ agent'[last'.id].energy = me.energy - 10 * StatUnit
                 /\ animals' = animals /\ DOMAIN agent' = DOMAIN agent
    ]_vars

\* C9: for two adults with energy >= 50, reproduce() goes on exactly when the draw
\* is <= successChance; on a draw > successChance the caller loses exactly 10
\* energy, nothing else changes, no offspring is registered and none is returned.
C9_FailsAboveChance ==
  [][ ( /\ last'.op = "reproduce" /\ last'.repro \in {"failed", "born", "rejected"}
        /\ last'.id \in DOMAIN agent /\ last'.partner # last'.id )
      => LET me == agent[last'.id]
             urge == IF "reproductiveUrge" \in DOMAIN me.dna
                     THEN me.dna["reproductiveUrge"].value ELSE GeneUnit \div 2
             chance == Max(GeneUnit \div 10,
                           urge - populationPressure * ((8 * GeneUnit) \div 100))
         IN IF last'.draw <= chance
            THEN last'.repro \in {"born", "rejected"}
            ELSE /\ last'.repro = "failed" /\ last'.child = NoId
                 /\ agent' = [agent EXCEPT ![last'.id].energy = @ - 10 * StatUnit]
                 /\ animals' = animals
                 /\ populationPressure' = populationPressure /\ nextId' = nextId
    ]_vars

\* The first call on a world of two adults drew exactly the chance of pressure 6,
\* and the offspring was born.
C9_Witness ==
  /\ last.op = "reproduce" /\ last.repro = "born" /\ calls = 1
  /\ Len(animals) = 3 /\ last.partner # last.id
  /\ last.draw = Max(GeneUnit \div 10,
                     agent[last.id].dna["reproductiveUrge"].value
                       - 6 * ((8 * GeneUnit) \div 100))

\* C10: when reproduce() has passed its draw and the world has room, exactly one
\* new animal is registered, at (floor((x1 + x2) / 2), floor((y1 + y2) / 2)) of
\* the parents' positions, with the union of the parents' gene names as its gene
\* names; a call from outside the tick costs the caller exactly 30 energy and
\* changes no other animal.
C10_Offspring ==
  [][ ( /\ last'.repro \in {"born", "rejected"}
        /\ last'.id \in DOMAIN agent /\ last'.partner \in DOMAIN agent
        /\ Len(animals) < maxPopulation )
      => LET me == agent[last'.id]
             pa == agent[last'.partner]
             child == last'.child
         IN /\ last'.repro = "born"
            /\ child \notin DOMAIN agent
            /\ animals' = Append(animals, child)
            /\ DOMAIN agent' = DOMAIN agent \cup {child}
            /\ agent'[child].position.x = (me.position.x + pa.position.x) \div 2
            /\ agent'[child].position.y = (me.position.y + pa.position.y) \div 2
            /\ DOMAIN agent'[child].dna = DOMAIN me.dna \cup DOMAIN pa.dna
            /\ last'.op = "reproduce" =>
                 /\ agent'[last'.id] = [me EXCEPT !.energy = @ - 30 * StatUnit]
                 /\ \A i \in DOMAIN agent \ {last'.id} : agent'[i] = agent[i]
    ]_vars

\* An offspring of two parents with different gene names has been registered.
C10_Witness ==
  /\ last.op = "reproduce" /\ last.repro = "born"
  /\ last.child \in DOMAIN agent /\ last.id \in DOMAIN agent
  /\ last.partner \in DOMAIN agent
  /\ DOMAIN agent[last.id].dna # DOMAIN agent[last.partner].dna
  /\ DOMAIN agent[last.child].dna = DOMAIN agent[last.id].dna \cup DOMAIN agent[last.partner].dna

\* C11: when reproduce() passes its chance test while the registry holds
\* maxPopulation animals, the caller still pays 30 energy, reproduce() returns
\* none, and the registry and every other animal are as before: the offspring is
\* never registered.
C11_RejectedAtCapacity ==
  [][ ( /\ last'.op \in {"reproduce", "update"}
        /\ last'.repro \in {"born", "rejected"}
        /\ Len(animals) >= maxPopulation )
      => LET id == last'.id
             before == IF last'.op = "update" THEN decay(agent[id]) ELSE agent[id]
         IN
         /\ last'.repro = "rejected"
         /\ last'.child = NoId
         /\ animals' = animals
         /\ DOMAIN agent' = DOMAIN agent
         /\ nextId' = nextId
         /\ agent'[id].energy = before.energy - 30 * StatUnit
         /\ \A j \in DOMAIN agent : j # id => agent'[j] = agent[j]
    ]_vars

\* Two adults of a full world have passed the chance test and were refused.
C11_Witness ==
  /\ last.op = "reproduce" /\ last.repro = "rejected"
  /\ last.partner # last.id
  /\ Len(animals) = maxPopulation
  /\ nextId \notin DOMAIN agent

\* C12: an attack by an animal of energy below 20 returns false and changes
\* nothing; with energy 20 or more it costs the attacker 15 energy, and a failed
\* attack changes nothing else: the target is still registered with the stats it
\* had and the attacker's hunger is as before.  (attack() is called from update(),
\* after the decay of the tick.)
C12_AttackCost ==
  [][ (last'.op = "update" /\ last'.atk # "none")
      => LET id == last'.id
             me == decay(agent[id])
         IN
         /\ last'.target \in DOMAIN agent
         /\ me.energy < 20 * StatUnit
              => /\ last'.atk = "tired"
                 /\ agent' = [agent EXCEPT ![id] = me]
                 /\ animals' = animals
         /\ me.energy >= 20 * StatUnit
              => /\ last'.atk \in {"miss", "hit"}
                 /\ last'.atk = "miss"
                      => /\ agent' = [agent EXCEPT ![id] = [me EXCEPT !.energy = @ - 15 * StatUnit]]
                         /\ animals' = animals
                 /\ last'.atk = "hit"
                      => \E gain \in 30..50 :
                           agent'[id].energy
                             = Min(100 * StatUnit, me.energy - 15 * StatUnit + gain * StatUnit)
         /\ grid' = grid /\ populationPressure' = populationPressure /\ nextId' = nextId
    ]_vars

\* An attacker of exactly 20 energy has attacked and missed.
C12_Witness ==
  /\ last.op = "update" /\ last.atk = "miss"
  /\ last.id \in DOMAIN agent /\ last.target \in DOMAIN agent
  /\ agent[last.id].energy = 5 * StatUnit

\* An attacker of less than 20 energy was turned away.
C12_WitnessTired ==
  /\ last.op = "update" /\ last.atk = "tired"
  /\ last.id \in DOMAIN agent /\ last.target \in DOMAIN agent
  /\ agent[last.id].energy < 20 * StatUnit

\* C13: a successful attack removes the target from the registry at once, leaves
\* the attacker min(100, energy - 15 + gain) energy for a gain between 30 and 50
\* and max(0, hunger - 40) hunger, and returns true; nothing else changes.
C13_SuccessfulAttack ==
  [][ (last'.op = "update" /\ last'.atk = "hit")
      => LET id == last'.id
             target == last'.target
             me == decay(agent[id])
         IN
         /\ target \in DOMAIN agent /\ target # id
         /\ target \notin DOMAIN agent'
         /\ animals' = SelectSeq(animals, LAMBDA i : i # target)
         /\ target \notin {animals'[k] : k \in 1..Len(animals')}
         /\ \E gain \in 30..50 :
              agent'[id].energy
                = Min(100 * StatUnit, me.energy - 15 * StatUnit + gain * StatUnit)
         /\ agent'[id].hunger = Max(0, me.hunger - 40 * StatUnit)
         /\ agent'[id] = [me EXCEPT !.energy = agent'[id].energy, !.hunger = agent'[id].hunger]
         /\ \A j \in DOMAIN agent : j \notin {id, target} => agent'[j] = agent[j]
    ]_vars

\* A kill by an attacker of less than 40 hunger: the hunger stops at 0.
C13_Witness ==
  /\ last.op = "update" /\ last.atk = "hit"
  /\ last.id \in DOMAIN agent
  /\ last.target \notin DOMAIN agent
  /\ agent[last.id].hunger = 0
  /\ agent[last.id].energy > 50 * StatUnit

\* C14: after die() or removeAnimal(id) the id is in neither getAllAnimals() nor
\* getAnimal(id); a removeAnimal of an id the registry does not hold (removed
\* before, or never registered) leaves the registry as it was.
C14_RemovedIsAbsent ==
  [][ LET after == [animals |-> animals', agent |-> agent']
          Absent(id) == id \notin getAllAnimals(after) /\ getAnimal(after, id) = NoId
      IN
      /\ last'.op = "removeAnimal"
           => /\ Absent(last'.id)
              /\ \A j \in DOMAIN agent :
                   j # last'.id => j \in getAllAnimals(after) /\ agent'[j] = agent[j]
              /\ last'.id \notin DOMAIN agent => animals' = animals /\ agent' = agent
      /\ (last'.op = "update" /\ last'.act \in {"died", "oldAge"}) => Absent(last'.id)
      /\ (last'.op = "update" /\ last'.atk = "hit") => Absent(last'.target)
    ]_vars

\* removeAnimal was called again for an id it had removed before.
C14_Witness ==
  /\ last.op = "removeAnimal" /\ ~last.had
  /\ last.id < nextId
  /\ calls = 2 /\ Len(animals) = nextId - 2 /\ Len(animals) > 0

\* removeAnimal was called for an id never registered.
C14_WitnessNever ==
  /\ last.op = "removeAnimal" /\ ~last.had
  /\ last.id >= nextId
  /\ Len(animals) > 0

\* C15: every registered animal stands inside the grid in every reachable state;
\* a move changes at most one coordinate, by 1, in the direction asked for, and
\* stops at the edge instead of wrapping; and every move costs 1 energy, also the
\* move that leaves the animal where it was.  (The move is compared with the
\* animal after the decay of the tick; a forager eats where it arrives, up to 5
\* food for half as much energy.)
C15_MoveInsideGrid ==
  /\ [](\A id \in DOMAIN agent :
          /\ agent[id].position.x \in 0..(W - 1)
          /\ agent[id].position.y \in 0..(H - 1))
  /\ [][ (last'.op = "update" /\ last'.moved # "none")
         => LET id == last'.id
                me == decay(agent[id])
                p == agent[id].position
                q == agent'[id].position
                tile == grid[q]
                eaten == IF last'.act = "forage" /\ tile.type = "grass" /\ tile.foodValue > 0
                         THEN Min(5 * StatUnit, tile.foodValue) ELSE 0
            IN
            /\ id \in DOMAIN agent'
            /\ last'.from = p
            /\ Abs(q.x - p.x) + Abs(q.y - p.y) <= 1
            /\ CASE last'.moved = "north" -> q.x = p.x /\ q.y = (IF p.y = 0 THEN 0 ELSE p.y - 1)
                 [] last'.moved = "south" -> q.x = p.x /\ q.y = (IF p.y = H - 1 THEN p.y ELSE p.y + 1)
                 [] last'.moved = "west"  -> q.y = p.y /\ q.x = (IF p.x = 0 THEN 0 ELSE p.x - 1)
                 [] last'.moved = "east"  -> q.y = p.y /\ q.x = (IF p.x = W - 1 THEN p.x ELSE p.x + 1)
            /\ agent'[id].energy
                 = (IF eaten > 0
                    THEN Min(100 * StatUnit, me.energy - StatUnit + eaten \div 2)
                    ELSE me.energy - StatUnit)
       ]_vars

\* An animal at the east edge was moved east: it stands where it stood, one
\* energy (and the decay of the tick) poorer.
C15_Witness ==
  /\ last.op = "update" /\ last.moved = "east" /\ last.act # "forage"
  /\ last.id \in DOMAIN agent
  /\ last.from = agent[last.id].position
  /\ agent[last.id].position.x = W - 1

\* C16: a Fluffles enters its courtship with progress 0; while it lives and its
\* partner is registered it calls reproduce() on the 4th update after that one
\* and on no earlier one, and right after that call it is idle again (no
\* partner, progress 0), whatever reproduce() returned.
C16_ReproducesOnFourthUpdate ==
  [][ (last'.op = "update" /\ last'.id \in DOMAIN agent')
      => LET id == last'.id
             partner == agent[id].matingPartner
         IN
         /\ (partner = NoId /\ agent'[id].matingPartner # NoId)
              => agent'[id].matingProgress = 0
         /\ (partner # NoId /\ partner \in DOMAIN agent)
              => /\ last'.repro # "none" <=> courted[id] + 1 = 4
                 /\ last'.repro # "none"
                      => /\ last'.partner = partner
                         /\ agent'[id].matingPartner = NoId
                         /\ agent'[id].matingProgress = 0
                 /\ last'.repro = "none"
                      => /\ agent'[id].matingPartner = partner
                         /\ courted'[id] = courted[id] + 1
    ]_vars

\* A courtship followed from its first tick has ended in a birth: the parent is
\* idle.
C16_Witness ==
  /\ last.op = "update" /\ last.act = "mating" /\ last.repro = "born"
  /\ budget = CourtUpdates /\ updates >= 7
  /\ last.id \in DOMAIN agent
  /\ agent[last.id].matingPartner = NoId /\ agent[last.id].matingProgress = 0

\* The same courtship has ended in a reproduce() that returned none.
C16_WitnessNone ==
  /\ last.op = "update" /\ last.act = "mating" /\ last.repro \in {"failed", "denied"}
  /\ budget = CourtUpdates /\ updates >= 7
  /\ last.id \in DOMAIN agent
  /\ agent[last.id].matingPartner = NoId /\ agent[last.id].matingProgress = 0

\* C17: when the partner of a courting animal is no longer registered as the
\* animal's update runs, the animal is idle afterwards (no partner, progress 0);
\* it has not called reproduce(), has not moved, and has paid nothing beyond the
\* decay of the tick.
C17_PartnerGone ==
  [][ ( /\ last'.op = "update"
        /\ last'.id \in DOMAIN agent'
        /\ agent[last'.id].matingPartner # NoId
        /\ agent[last'.id].matingPartner \notin DOMAIN agent )
      => LET id == last'.id IN
         /\ last'.act = "mating"
         /\ last'.repro = "none" /\ last'.moved = "none" /\ last'.atk = "none"
         /\ agent' = [agent EXCEPT ![id] = [decay(agent[id]) EXCEPT !.matingPartner = NoId,
                                                                   !.matingProgress = 0]]
         /\ animals' = animals /\ grid' = grid /\ nextId' = nextId
    ]_vars

\* An animal on the last step of its courtship has found its partner gone.
C17_Witness ==
  /\ last.op = "update" /\ last.act = "mating" /\ last.repro = "none"
  /\ last.id \in DOMAIN agent
  /\ agent[last.id].matingPartner = NoId /\ agent[last.id].matingProgress = 0
  /\ courted[last.id] = 0
  /\ Len(animals) = 1 /\ nextId = 3 /\ updates = 2
  /\ agent[last.id].age = 31 /\ agent[last.id].energy > 77 * StatUnit

\* C18: at most one disaster is active at any time.  While a major disaster is
\* active, a tick triggers no new major disaster and introduces no minor
\* challenge, it only updates the active one; and the kind and the intensity of
\* the active disaster stay what they were until it ends.
C18_OneDisasterAtATime ==
  /\ [](sim.disasterActive <=> sim.disasterType \in disasterTypes)
  /\ [][ (sim.disasterActive /\ sim'.paused = sim.paused)
         => /\ last'.op = "tick" /\ last'.updated
            /\ ~last'.triggered /\ last'.challenge = "none"
            /\ sim'.disasterActive
                 => /\ sim'.disasterType = sim.disasterType
                    /\ sim'.disasterIntensity = sim.disasterIntensity
       ]_vars

\* A tick has updated a disaster that is still active, in a behaviour that has
\* held no minor challenge yet.
C18_Witness ==
  /\ sim.disasterActive /\ ~sim.paused
  /\ last.op = "tick" /\ last.updated
  /\ tally.challenges < MaxChallenges
  /\ tally.elapsed = 2

\* C19: a major disaster triggered with duration d is active for exactly d
\* further unpaused ticks.  Each of those ticks reapplies the effect of the kind
\* and takes 1 from the remaining duration; the tick that brings it to 0 leaves
\* the engine inactive with no kind.  So a disaster ends, provided the
\* simulation is not paused again and again for ever.
C19_DisasterRunsItsDuration ==
  /\ [](sim.disasterActive
          => /\ tally.drawn \in DurationBase..(DurationBase + DurationSpan - 1)
             /\ sim.disasterDuration = tally.drawn - tally.elapsed
             /\ sim.disasterDuration >= 1)
  /\ [][ (sim.disasterActive /\ sim'.paused = sim.paused)
         => /\ last'.op = "tick" /\ last'.updated
            /\ \E quake \in BOOLEAN :
                 grid' = applyDisasterEffects(regrow(Start("tick", NoId)), sim,
                                              quake, QuakeTiles, {}).grid
            /\ sim'.disasterDuration = sim.disasterDuration - 1
            /\ sim'.disasterActive <=> tally.elapsed + 1 < tally.drawn
            /\ ~sim'.disasterActive
                 => /\ sim'.disasterDuration = 0
                    /\ sim'.disasterType = ""
       ]_vars
  /\ (<>[](~sim.paused)) => (sim.disasterActive ~> ~sim.disasterActive)

\* A disaster of the least intensity has just ended, on a tick that updated it.
C19_Witness ==
  /\ last.op = "tick" /\ last.updated
  /\ ~sim.disasterActive /\ sim.disasterType = "" /\ sim.disasterDuration = 0
  /\ sim.disasterIntensity = IntensityBase
  /\ tally.ended = 1

\* C20: while a drought is active, the grass is reduced on every 5th tick of the
\* disaster counted from the tick that triggered it (the 5th, the 10th, ...) and
\* on no other tick, whatever duration was drawn; in particular never on two
\* ticks in a row.  The tick that triggers the drought counts as tick 0, the
\* k-th update of the drought as tick k.
C20_DroughtEveryFifthTick ==
  [][ ( /\ sim'.paused = sim.paused
        /\ last'.op = "tick"
        /\ sim'.disasterActive /\ sim'.disasterType = "drought"
        /\ last'.triggered \/ last'.updated )
      => LET k == IF last'.triggered THEN 0 ELSE tally.elapsed + 1 IN
         /\ last'.withered <=> (k > 0 /\ k % 5 = 0)
         /\ ~(last'.withered /\ tally.withered)
    ]_vars

\* C21: the effects of a disaster on the animals change the animals.  A tick
\* that applies an active drought (the tick that triggers it included) leaves
\* every registered animal's hunger higher by intensity * 2, and a tick that
\* applies a cold snap leaves every registered animal's energy lower by
\* intensity * 2.
C21_DisasterChangesAgents ==
  [][ (last'.op = "tick" /\ (last'.triggered \/ last'.updated))
      => LET kind == IF last'.triggered THEN sim'.disasterType ELSE sim.disasterType
             twice == (2 * sim'.disasterIntensity * StatUnit) \div IntensityOne
         IN
         \A id \in DOMAIN agent :
           /\ kind = "drought" => agent'[id].hunger = agent[id].hunger + twice
           /\ kind = "coldSnap" => agent'[id].energy = agent[id].energy - twice
    ]_vars

\* C22: getPosition(), getStats() and getDNA() each hand out an independent copy
\* on every read: whatever the caller does to the position, the stats or the
\* genome it was handed (adding a gene, overwriting one), the animals of the
\* world stay as they were.
C22_AccessorsReturnCopies ==
  [][ last'.op = "access" => agent' = agent /\ animals' = animals ]_vars

\* C23: mutate() returns a genome with exactly the gene names of the genome it
\* was called on, every value within [0, 1] and every mutationRate as it was;
\* and over any chain of combine() and mutate() calls that starts from genomes
\* with values within [0, 1], every value of every genome returned is within
\* [0, 1].
C23_MutateKeepsGenes ==
  /\ last.op = "mutate"
       => /\ DOMAIN last.out = DOMAIN last.dna1
          /\ \A n \in DOMAIN last.out :
               /\ last.out[n].value >= 0 /\ last.out[n].value <= GeneUnit
               /\ last.out[n].mutationRate = last.dna1[n].mutationRate
  /\ last.op \in {"combine", "mutate"}
       => \A n \in DOMAIN last.out :
            last.out[n].value >= 0 /\ last.out[n].value <= GeneUnit

\* The third call of a chain was a mutate() that took 0.1 from a gene of less
\* than 0.1: the value stopped at 0.
C23_Witness ==
  /\ last.op = "mutate" /\ calls = 3
  /\ \E n \in DOMAIN last.dna1 :
       /\ last.dna1[n].value > 0 /\ last.dna1[n].value < GeneUnit \div 10
       /\ last.out[n].value = 0

\* C24: combine(a, b) returns a genome whose gene names are exactly those of a
\* together with those of b; a gene only one of them has is taken over with its
\* value and mutationRate; a gene both have is a's gene, b's gene, or the gene of
\* their average value and average mutationRate.
C24_CombineIsUnion ==
  last.op = "combine"
    => LET a == last.dna1
           b == last.dna2
       IN
       /\ DOMAIN last.out = (DOMAIN a) \cup (DOMAIN b)
       /\ \A n \in (DOMAIN a) \ (DOMAIN b) : last.out[n] = a[n]
       /\ \A n \in (DOMAIN b) \ (DOMAIN a) : last.out[n] = b[n]
       /\ \A n \in (DOMAIN a) \cap (DOMAIN b) :
            \/ last.out[n] = a[n]
            \/ last.out[n] = b[n]
            \/ /\ last.out[n].value * 2 \in {a[n].value + b[n].value, a[n].value + b[n].value - 1}
               /\ last.out[n].mutationRate * 2
                    \in {a[n].mutationRate + b[n].mutationRate,
                         a[n].mutationRate + b[n].mutationRate - 1}

\* Two genomes with different gene names were combined; one shared gene was
\* blended, one came from the second parent, and a gene only the second parent
\* has was taken over.
C24_Witness ==
  /\ last.op = "combine"
  /\ \E n \in (DOMAIN last.dna2) \ (DOMAIN last.dna1) : last.out[n] = last.dna2[n]
  /\ \E n \in (DOMAIN last.dna1) \cap (DOMAIN last.dna2) :
       last.out[n] \notin {last.dna1[n], last.dna2[n]}
  /\ \E n \in (DOMAIN last.dna1) \cap (DOMAIN last.dna2) :
       last.out[n] = last.dna2[n] /\ last.out[n] # last.dna1[n]

\* C25: an addAnimal rejected at capacity nudges populationPressure up by 1,
\* whatever the main formula gave, as long as the rejections have contributed
\* less than 5 (no behaviour here holds that many); in particular a rejection in
\* a full world with maxPopulation > 0 raises populationPressure.
C25_RejectionNudgesPressure ==
  [][ ( /\ maxPopulation > 0
        /\ \/ last'.op = "addAnimal" /\ ~last'.ok
           \/ last'.repro = "rejected" )
      => populationPressure' = populationPressure + 1
    ]_vars

\* C26: within one World.update() the animals are updated in registry order,
\* each at most once: an update() runs for a registered animal that has not had
\* its turn in this pass, after every animal registered before it has had its
\* turn; the pass ends only when every registered animal has had its turn; and an
\* animal removed from the registry (killed by an attack, dead in its own
\* update) is never updated again.
C26_OncePerTickInOrder ==
  [][ /\ last'.op = "update"
           => LET id == last'.id IN
              /\ id \in DOMAIN agent
              /\ id \notin visited
              /\ visited' = visited \cup {id}
              /\ \A k \in 1..Len(animals) :
                   animals[k] = id \/ animals[k] \in visited
                     \/ \E j \in 1..(k - 1) : animals[j] = id
      /\ last'.op = "regrow"
           => \A k \in 1..Len(animals) : animals[k] \in visited
      /\ \A i \in 1..(nextId - 1) : i \notin DOMAIN agent => i \notin DOMAIN agent'
    ]_vars

\* A pass over two animals has ended after one update(): the first animal killed
\* the second before its turn.
C26_Witness ==
  /\ last.op = "regrow" /\ calls = 0
  /\ updates = 1 /\ nextId = 3 /\ Len(animals) = 1

\* C27: World.update() applies the environmental stress to an animal once per
\* pass, right before that animal's update(), and only under a populationPressure
\* above 5.  Under a pressure of 5 or less the update() follows without it; in
\* (5, 7] the stress adds 0.3 hunger and takes 0.1 energy and no health; above 7
\* it adds 0.5 hunger, takes 0.3 energy and takes 0 or 1 health.  Nothing else
\* changes.
C27_StressOncePerTick ==
  [][ /\ last'.op = "stress"
           => LET id == last'.id
                  me == agent[id]
              IN
              /\ populationPressure > 5
              /\ pc = "loop" /\ pc' = "update" /\ cur' = id
              /\ id \in DOMAIN agent /\ id \notin visited
              /\ animals' = animals /\ grid' = grid
              /\ populationPressure' = populationPressure
              /\ \A j \in DOMAIN agent : j # id => agent'[j] = agent[j]
              /\ IF populationPressure <= 7
                 THEN agent'[id] = [me EXCEPT !.hunger = @ + (3 * StatUnit) \div 10,
                                              !.energy = @ - StatUnit \div 10]
                 ELSE \E lost \in {0, 1} :
                        agent'[id] = [me EXCEPT !.hunger = @ + StatUnit \div 2,
                                                !.energy = @ - (3 * StatUnit) \div 10,
                                                !.health = @ - lost * StatUnit]
      /\ last'.op = "update"
           => IF populationPressure > 5
              THEN pc = "update" /\ last.op = "stress" /\ last.id = last'.id /\ cur = last'.id
              ELSE pc = "loop" /\ last.op # "stress"
      /\ last.op = "stress" => last'.op = "update" /\ last'.id = last.id
    ]_vars

\* An animal of a crowded world (pressure above 7) has lost 1 health to the
\* stress of its turn.
C27_Witness ==
  /\ last.op = "stress" /\ populationPressure > 7 /\ pc = "update"
  /\ agent[last.id].health = 99 * StatUnit

\* An animal under a pressure of 6 has had the moderate stress.
C27_WitnessModerate ==
  /\ last.op = "stress" /\ populationPressure = 6 /\ pc = "update"
  /\ agent[last.id].health = 100 * StatUnit

\* C28: a Fluffles without a partner takes one only in its own update(), on the
\* intelligent branch of act() and through seek-mate: after the decay of that
\* update it is adult, its reproductiveUrge gene is above 0.6, its energy above
\* 70, its hunger at most 40, the populationPressure below 7, and the partner,
\* taken with progress 0, is another adult at Manhattan distance 1 or less.
C28_MatingOnlyWhenFit ==
  [][ \A id \in (DOMAIN agent) \cap (DOMAIN agent') :
        (agent[id].matingPartner = NoId /\ agent'[id].matingPartner # NoId)
          => LET a == decay(agent[id])
                 p == agent'[id].matingPartner
             IN
             /\ last'.op = "update" /\ last'.id = id
             /\ last'.branch = "smart" /\ last'.act = "mates"
             /\ a.age * GeneUnit >= maturityAge(a)
             /\ "reproductiveUrge" \in DOMAIN a.dna
             /\ a.dna["reproductiveUrge"].value * 10 > 6 * GeneUnit
             /\ a.energy > 70 * StatUnit
             /\ a.hunger <= 40 * StatUnit
             /\ populationPressure < 7
             /\ p # id /\ p \in DOMAIN agent
             /\ agent[p].age * GeneUnit >= maturityAge(agent[p])
             /\ Distance(agent[p].position, agent[id].position) <= 1
             /\ agent'[id].matingProgress = 0
             /\ agent'[id].position = agent[id].position
    ]_vars

\* An animal has just taken a partner in its update().
C28_Witness ==
  /\ last.op = "update" /\ last.act = "mates" /\ last.branch = "smart"
  /\ last.id \in DOMAIN agent
  /\ agent[last.id].matingPartner # NoId /\ agent[last.id].matingProgress = 0
  /\ populationPressure = 6

\* C29: an animal that runs seek-mate with at least one other adult at Manhattan
\* distance 1 or less takes an adjacent adult as its partner, with progress 0,
\* and stays where it is; it steps toward another animal only when no adult is
\* adjacent and one is at distance 2.
C29_SeekMateTakesAdjacent ==
  [][ (last'.act = "mates" /\ last'.id \in DOMAIN agent')
        => LET id == last'.id
               me == agent[id].position
               adjacent == {j \in DOMAIN agent \ {id} :
                              /\ agent[j].age * GeneUnit >= maturityAge(agent[j])
                              /\ Distance(agent[j].position, me) <= 1}
               near == {j \in DOMAIN agent \ {id} :
                          /\ agent[j].age * GeneUnit >= maturityAge(agent[j])
                          /\ Distance(agent[j].position, me) = 2}
           IN
           /\ adjacent # {}
                => /\ agent'[id].matingPartner \in adjacent
                   /\ agent'[id].matingProgress = 0
                   /\ agent'[id].position = me
                   /\ last'.moved = "none"
           /\ (last'.moved # "none" /\ adjacent \cup near # {})
                => adjacent = {} /\ near # {}
    ]_vars

\* C30: on the random branch of act() (draw >= intelligence) an animal whose
\* aggression gate fired and whose energy, after the decay of the update, is
\* below 50 hunts, forages or rests and never wanders; any other animal on that
\* branch forages, rests or wanders.
C30_RandomBranchChoices ==
  [][ (last'.op = "update" /\ last'.branch = "random")
        => IF last'.gate /\ decay(agent[last'.id]).energy < 50 * StatUnit
           THEN last'.act \in {"hunt", "forage", "rest"}
           ELSE last'.act \in {"forage", "rest", "wander"}
    ]_vars

\* C31: moveToward(target), for a target tile of the grid other than the
\* animal's own, steps east or west when |dx| > |dy| and north or south
\* otherwise (a tie goes vertical), toward the target; the step is taken (no
\* edge of the grid holds it back) and brings the animal exactly 1 closer in
\* Manhattan distance.
C31_MoveTowardCloses ==
  [][ \A id \in (DOMAIN agent) \cap (DOMAIN agent') :
        (last'.id = id /\ last'.to \in Positions /\ last'.to # agent[id].position)
          => LET p == agent[id].position
                 q == agent'[id].position
                 dx == last'.to.x - p.x
                 dy == last'.to.y - p.y
             IN
             /\ last'.from = p
             /\ IF Abs(dx) > Abs(dy)
                THEN /\ last'.moved = (IF dx > 0 THEN "east" ELSE "west")
                     /\ q.y = p.y
                     /\ q.x = (IF dx > 0 THEN p.x + 1 ELSE p.x - 1)
                ELSE /\ last'.moved = (IF dy > 0 THEN "south" ELSE "north")
                     /\ q.x = p.x
                     /\ q.y = (IF dy > 0 THEN p.y + 1 ELSE p.y - 1)
             /\ q \in Positions
             /\ Distance(q, last'.to) = Distance(p, last'.to) - 1
    ]_vars

\* An animal has stepped vertically toward a target as far across as down
\* (a tie), from a tile on the grid's west edge.
C31_Witness ==
  /\ last.op = "moveToward" /\ last.id \in DOMAIN agent
  /\ last.from.x = 0
  /\ Abs(last.to.x - last.from.x) = Abs(last.to.y - last.from.y)
  /\ last.to # last.from
  /\ agent[last.id].position.x = 0
  /\ agent[last.id].position.y # last.from.y

\* C32: between ticks, an active disaster is an earthquake, a drought, a disease
\* or a cold snap, has between 1 and 50 ticks left and an intensity within
\* [0.5, 1.0]; when no disaster is active the kind is the empty one.
C32_DisasterWellFormed ==
  IF sim.disasterActive
  THEN /\ sim.disasterType \in {"earthquake", "drought", "disease", "coldSnap"}
       /\ sim.disasterDuration >= 1 /\ sim.disasterDuration <= 50
       /\ 2 * sim.disasterIntensity >= IntensityOne
       /\ sim.disasterIntensity <= IntensityOne
  ELSE sim.disasterType = ""

\* A disaster at its last tick, and one that has ended.
C32_Witness ==
  /\ sim.disasterActive /\ sim.disasterDuration = 1
  /\ sim.disasterType = "coldSnap"

C32_WitnessEnded ==
  /\ ~sim.disasterActive /\ tally.ended = 1 /\ sim.disasterDuration = 0

\* C33: consumeFood(position, amount), amount >= 0, returns the lesser of the
\* tile's foodValue and the amount, lowers that tile's foodValue by what it
\* returns and leaves every other tile alone; for a position off the grid it
\* returns 0 and changes nothing; on a rock tile it returns 0.
C33_ConsumeFoodTakesMin ==
  [][ last'.op = "consumeFood"
        => LET p == last'.to IN
           /\ last'.amount >= 0
           /\ IF p \in Positions
              THEN /\ last'.consumed = (IF grid[p].foodValue < last'.amount
                                        THEN grid[p].foodValue ELSE last'.amount)
                   /\ grid' = [grid EXCEPT ![p].foodValue = @ - last'.consumed]
                   /\ grid[p].type = "rock" => last'.consumed = 0
              ELSE last'.consumed = 0 /\ grid' = grid
           /\ animals' = animals /\ agent' = agent
           /\ populationPressure' = populationPressure
    ]_vars

\* More was asked of a grass tile than it held after an earlier call: the tile
\* is empty.
C33_Witness ==
  /\ last.op = "consumeFood" /\ last.to \in Positions
  /\ grid[last.to].type = "grass" /\ grid[last.to].foodValue = 0
  /\ last.consumed = 5 * StatUnit /\ last.amount = 12 * StatUnit

\* A call for a position off the grid; a call on the rock tile.
C33_WitnessOffGrid ==
  last.op = "consumeFood" /\ last.to \notin Positions /\ last.amount > 0

C33_WitnessRock ==
  /\ last.op = "consumeFood" /\ last.to \in Positions
  /\ grid[last.to].type = "rock" /\ last.amount > 0 /\ last.consumed = 0

\* C34: an update() ends in a death of old age only when the animal's age, after
\* the increment of that update, is above 0.7 * maxAge, where maxAge is 100 plus
\* 50 times the lifespan gene (100 without the gene); the animal had not starved
\* in that update.
C34_OldAgeOnlyWhenOld ==
  [][ (last'.op = "update" /\ last'.act = "oldAge")
        => LET a == agent[last'.id]
               lifespan == IF "lifespan" \in DOMAIN a.dna THEN a.dna["lifespan"].value ELSE 0
           IN
           /\ (a.age + 1) * 10 * GeneUnit > 7 * (100 * GeneUnit + 50 * lifespan)
           /\ a.health > 0
           /\ a.hunger + StatUnit < 100 * StatUnit
           /\ last'.id \notin DOMAIN agent'
    ]_vars

\* An animal of 91 ticks (maxAge 125) has died of old age.
C34_Witness ==
  /\ last.op = "update" /\ last.act = "oldAge"
  /\ last.id \notin DOMAIN agent

\* An animal above 0.7 * maxAge has lived through its update().
C34_WitnessSurvived ==
  /\ last.op = "update" /\ last.act \notin {"oldAge", "died", "none"}
  /\ last.id \in DOMAIN agent
  /\ agent[last.id].age * 10 * GeneUnit > 7 * maxAge(agent[last.id])

\* C35: as the simulation ticks, the registry grows only by the one offspring of
\* a reproduce() that a registered animal made with success; a registry once
\* empty stays empty, whatever the disasters and challenges do.
C35_ExtinctionIsAbsorbing ==
  [][ /\ Len(animals') > Len(animals)
           => /\ last'.op = "update" /\ last'.repro = "born"
              /\ last'.id \in DOMAIN agent /\ last'.partner \in DOMAIN agent
              /\ last'.child \notin DOMAIN agent
              /\ animals' = Append(animals, last'.child)
      /\ (\A id \in DOMAIN agent' : id \in DOMAIN agent \/ id = last'.child)
      /\ Len(animals) = 0 => Len(animals') = 0 /\ DOMAIN agent' = {}
    ]_vars

\* The last animal has died and a disaster strikes the empty world.
C35_Witness ==
  /\ Len(animals) = 0 /\ sim.disasterActive /\ last.op = "tick"

\* An offspring has been registered during a tick.
C35_WitnessBorn ==
  /\ last.op = "update" /\ last.repro = "born" /\ sim.on
  /\ last.child \in DOMAIN agent /\ Len(animals) = 3

\* C36: of every registered animal, between updates: without a partner its
\* matingProgress is 0; with a partner, the partner is not the animal itself,
\* the progress is 0, 1, 2 or 3, and the animal is adult.
C36_CourtshipWellFormed ==
  \A id \in DOMAIN agent :
    IF agent[id].matingPartner = NoId
    THEN agent[id].matingProgress = 0
    ELSE /\ agent[id].matingPartner # id
         /\ agent[id].matingProgress >= 0 /\ agent[id].matingProgress <= 3
         /\ agent[id].age * GeneUnit >= maturityAge(agent[id])

\* An animal in the third update of its courtship; an animal whose partner
\* starved, idle again.
C36_Witness ==
  \E id \in DOMAIN agent :
    /\ agent[id].matingPartner # NoId /\ agent[id].matingProgress = 3
    /\ last.op = "update" /\ last.id = id /\ courted[id] = 3

C36_WitnessWidowed ==
  /\ last.op = "update" /\ last.act = "mating" /\ last.repro = "none"
  /\ last.id \in DOMAIN agent /\ updates > 0
  /\ agent[last.id].matingPartner = NoId
  /\ Len(animals) = 1

\* C37: when a courtship ends, in the update that calls reproduce() on the
\* partner, the animal and its partner are at Manhattan distance 1 or less.
C37_MatesAreAdjacent ==
  [][ ( /\ last'.op = "update" /\ last'.act = "mating" /\ last'.repro # "none"
        /\ last'.id \in DOMAIN agent /\ last'.partner \in DOMAIN agent )
        => Distance(agent[last'.id].position, agent[last'.partner].position) <= 1
    ]_vars

\* C38: a call of reproduce(partner) changes, of the animals registered before
\* it, nothing but the caller's energy: the partner and every other animal keep
\* their stats, position and genome, the caller keeps its health, hunger, age,
\* position and genome; the grid is untouched.  Beyond that only the registry
\* (the offspring) and populationPressure change.
C38_ReproduceFrame ==
  [][ last'.op = "reproduce"
        => LET id == last'.id IN
           /\ DOMAIN agent \subseteq DOMAIN agent'
           /\ \A j \in DOMAIN agent : j # id => agent'[j] = agent[j]
           /\ agent'[id] = [agent[id] EXCEPT !.energy = agent'[id].energy]
           /\ agent'[id].energy <= agent[id].energy
           /\ grid' = grid
           /\ \A j \in DOMAIN agent' : j \in DOMAIN agent \/ j = last'.child
           /\ animals' # animals => last'.repro = "born"
    ]_vars

\* A reproduce() with another animal has registered an offspring.
C38_Witness ==
  /\ last.op = "reproduce" /\ last.repro = "born"
  /\ last.partner # last.id /\ last.child \in DOMAIN agent
  /\ last.partner \in DOMAIN agent

\* C39: no registered animal is older than 3.7 * maxAge (maxAge = 100 + 50 *
\* lifespan, at most 150): an update() that takes an animal to that age or
\* beyond removes it.  So, as the ticks go on, every animal is removed from the
\* registry in the end.
C39_NoneOutlivesItsAge ==
  /\ [](\A id \in DOMAIN agent :
          LET lifespan == IF "lifespan" \in DOMAIN agent[id].dna
                          THEN agent[id].dna["lifespan"].value ELSE 0
          IN /\ agent[id].age * 10 * GeneUnit <= 37 * (100 * GeneUnit + 50 * lifespan)
             /\ lifespan <= GeneUnit)
  /\ <>[](Len(animals) = 0)

\* An animal has lived through the update() that took it to 462 ticks, the last
\* age below 3.7 * maxAge = 462.5.
C39_Witness ==
  /\ last.op = "update" /\ last.id \in DOMAIN agent
  /\ agent[last.id].age = 462

\* An animal was removed by the old-age test in the update() that took it to 463.
C39_WitnessRemoved ==
  /\ last.op = "update" /\ last.act = "oldAge" /\ last.id \notin DOMAIN agent
  /\ updates >= 3 /\ Len(animals) = 0

====
